---- MODULE Spec2Model ----
(***************************************************************************)
(* State-machine model of the job / result layer of                        *)
(* qiskit-pasqal-provider:                                                 *)
(*   - PasqalLocalJob / PasqalRemoteJob      (providers/jobs.py)           *)
(*   - PasqalJob accessors, _eval_run_method (providers/abstract_base.py)  *)
(*   - PasqalResult and its fetch paths      (providers/result.py)         *)
(*                                                                         *)
(* and of the layers around it:                                            *)
(*   - PasqalProvider.get_backend and the two dispatchers                  *)
(*     (providers/provider.py, backends/local.py, backends/remote.py)      *)
(*   - QPUBackend.run / EmuRemoteBackend.run (backends/)                   *)
(*   - PasqalTarget                          (providers/target.py)         *)
(*   - _get_wf_values                        (providers/pulse_utils.py)    *)
(*   - gen_seq, get_register_from_circuit     (providers/pulse_utils.py)   *)
(*   - HamiltonianGate.__init__               (providers/gate.py)          *)
(*   - run() of the four backends             (backends/)                  *)
(*   - Sampler.run                            (providers/sampler.py)       *)
(*                                                                         *)
(* SpecJob  : one job object driven by a single-threaded caller.           *)
(* SpecPoll : PasqalResult._fetch_remote_pulser_sim_results driven by a    *)
(*            remote batch whose status is observed poll by poll.          *)
(* SpecProv : one provider answering get_backend calls.                    *)
(* SpecRun  : one call of run() on a remote backend, statement by          *)
(*            statement.                                                   *)
(* SpecTgt  : one construction of a PasqalTarget.                          *)
(* SpecWf   : calls of _get_wf_values on one Sequence.                     *)
(* SpecSeq  : one call of gen_seq, instruction by instruction, then        *)
(*            Sequence.build.                                              *)
(* SpecReg  : one call of get_register_from_circuit.                       *)
(* SpecGate : one construction of a HamiltonianGate.                       *)
(* SpecExec : successive run() calls on one backend object.                *)
(* SpecSmp  : one call of Sampler.run.                                     *)
(* SpecTerm : the two polling loops of PasqalResult against a remote side  *)
(*            that changes while they run; the program's steps are fair.   *)
(***************************************************************************)
EXTENDS Integers, Sequences, FiniteSets, TLC

VARIABLES
    \* ---- the job object (jobs.py) ----
    jobKind,      \* "none" | "local" | "remote" : class of the constructed job
    jobBackend,   \* backend_name of the job's backend
    jobExecutor,  \* the local executor kind held by the job ("None" for remote)
    jobWait,      \* PasqalRemoteJob._wait
    jobStatus,    \* _status ; "UNSET" when the attribute was never assigned
    jobResult,    \* _result ; tag "UNSET" when the attribute was never assigned
    jobMeta,      \* metadata dict
    jobBatch,     \* PasqalRemoteJob._batch : "None" | "batch"
    \* ---- the caller's position and what the last call did ----
    pc,           \* "idle", or the point reached inside submit()
    callOp,       \* last method called on the job
    callOutcome,  \* "running" | "ok" | name of the exception that propagated
    callReturn,   \* value returned by the last result() / status() call
    \* ---- the cloud side, as seen through the SDK ----
    cloudStatus,  \* status of batch.ordered_jobs[-1]
    cloudCounts,  \* result of that job once DONE
    batchCalls,   \* create_batch calls made (sequence of argument records)
    nCancelReq,   \* cancellation requests sent to the remote batch
    nSleeps,      \* time.sleep calls made inside the current submit()
    \* ---- session-polled normalisation (result.py, RemoteResults) ----
    script,       \* statuses the remote batch will report, poll by poll
    observed,     \* statuses get_batch_status() has returned so far
    remoteResults,\* results.results : sequence of sampling distributions
    pollPc,       \* position inside _fetch_remote_pulser_sim_results
    matched,      \* status the last match statement of get_result() dispatched on
    pollOutcome,  \* "none" | "counts" | name of the error raised
    pollCounts,   \* DataBin.counts returned
    pollSleeps,   \* time.sleep calls made
    \* ---- PasqalProvider.get_backend (provider.py) ----
    remoteConfig, \* PasqalProvider.remote_config : "None" | "RemoteConfig"
    platform,     \* sys.platform of the interpreter
    gbTag,        \* backend_name argument of the current / last call
    gbTarget,     \* target argument : "None" | "target"
    gbPc,         \* "idle", or the point reached inside get_backend
    gbOutcome,    \* "none" | "backend" | name of the exception that propagated
    gbBackend,    \* the backend object returned
    gbLog,        \* objects constructed and cloud calls made by the call, in order
    \* ---- QPUBackend.run / EmuRemoteBackend.run (backends/) ----
    runBackend,   \* tag of the remote backend whose run() is called
    runArgs,      \* shots, values and wait as passed to run()
    runEnv,       \* how the circuit and its register fare against the device
    runPc,        \* next statement of run()
    runOutcome,   \* "none" | "job" | name of the exception that propagated
    runLog,       \* calls run() has made, in order
    \* ---- PasqalTarget.__init__ (target.py) ----
    tgtArgs,      \* device, layout and cloud arguments of the constructor
    tgtPc,        \* "off" | "get_device" | "get_layout" | "done"
    tgtAttrs,     \* _accepts_new_layouts and _pre_calibrated_layouts once set
    tgtOutcome,   \* "none" | "target" | name of the exception raised
    tgtLayout,    \* the target's _layout
    \* ---- _get_wf_values on one pulser Sequence (pulse_utils.py) ----
    declared,     \* seq.declared_variables
    nDeclared,    \* Variable objects created so far (gives each its identity)
    wfValues,     \* the values argument of the last call
    wfReturn,     \* what the last call returned
    \* ---- gen_seq, and Sequence.build on its result (pulse_utils.py) ----
    gsCircuit,    \* circuit.data : the instructions, in order
    gsPc,         \* "off" | "declare" | "loop" | "done" | "built" | "failed"
    gsK,          \* index in circuit.data of the instruction the loop is at
    gsChannels,   \* channel names declared on the Sequence, in order
    gsPulses,     \* pulses added to the Sequence, in order
    gsDeclared,   \* names of the variables declared on the Sequence
    gsOutcome,    \* "none" | "sequence" | name of the exception raised
    gsValues,     \* the values given to build(**values), by variable name
    gsBuilt,      \* pulses of the Sequence returned by build(**values)
    \* ---- get_register_from_circuit (pulse_utils.py) ----
    rgCircuit,    \* run_input.data : the analog_register of each gate, in order
    rgPc,         \* "off" | "loop" | "done"
    rgK,          \* index in run_input.data of the gate the loop is at
    rgRegisters,  \* the local list `registers`
    rgOutcome,    \* "none" | "register" | name of the exception raised
    rgReturn,     \* the register returned
    \* ---- HamiltonianGate.__init__ (gate.py) ----
    hgArgs,       \* amplitude, detuning, phase and composed_wf as passed
    hgPc,         \* "off" | "composed_wf" | "types" | "durations" | "construct" | "done"
    hgOutcome,    \* "none" | "gate" | name of the exception raised
    hgBuilt,      \* objects the constructor has built, in order
    \* ---- run() calls on one backend object (backends/) ----
    exClass,      \* class of the backend object run() is called on
    exPlatform,   \* sys.platform of the interpreter
    exObjects,    \* the backend objects alive: the original, then its copies
    exHandles,    \* executor handles created so far (gives each its identity)
    exJobs,       \* the jobs the run() calls returned, in order
    exCalls,      \* the run() calls made: arguments, sequence used, outcome
    \* ---- Sampler.run (sampler.py) ----
    spPubs,       \* the pubs argument
    spPc,         \* "off" | "coerce" | "run" | "done"
    spChosen,     \* index of the pub _coerce_pubs took the circuit from (0: none)
    spRan,        \* indices of the pubs whose circuit the backend has run
    spEntries,    \* pub results held by the result of the job returned
    spOutcome,    \* "none" | "job" | name of the exception raised
    \* ---- the polling loops of PasqalResult, against a live remote side ----
    tmPath,       \* "off" | "session" | "cloud"
    tmRemote,     \* the status the remote side holds now
    tmJob,        \* job_obj.status as last fetched (cloud path)
    tmPc,         \* position inside the normalization
    tmOutcome,    \* "none" | "counts" | the exception raised
    tmSlept       \* whether time.sleep has been called

jobVars  == <<jobKind, jobBackend, jobExecutor, jobWait, jobStatus, jobResult,
              jobMeta, jobBatch>>
callVars == <<pc, callOp, callOutcome, callReturn>>
envVars  == <<cloudStatus, cloudCounts, batchCalls, nCancelReq, nSleeps>>
pollVars == <<script, observed, remoteResults, pollPc, matched, pollOutcome,
              pollCounts, pollSleeps>>
provVars == <<remoteConfig, platform, gbTag, gbTarget, gbPc, gbOutcome, gbBackend,
              gbLog>>
runVars  == <<runBackend, runArgs, runEnv, runPc, runOutcome, runLog>>
tgtVars  == <<tgtArgs, tgtPc, tgtAttrs, tgtOutcome, tgtLayout>>
wfVars   == <<declared, nDeclared, wfValues, wfReturn>>
seqVars  == <<gsCircuit, gsPc, gsK, gsChannels, gsPulses, gsDeclared, gsOutcome,
              gsValues, gsBuilt>>
\* the circuit-to-sequence and execution layers
regVars  == <<rgCircuit, rgPc, rgK, rgRegisters, rgOutcome, rgReturn>>
gateVars == <<hgArgs, hgPc, hgOutcome, hgBuilt>>
execVars == <<exClass, exPlatform, exObjects, exHandles, exJobs, exCalls>>
smpVars  == <<spPubs, spPc, spChosen, spRan, spEntries, spOutcome>>
termVars == <<tmPath, tmRemote, tmJob, tmPc, tmOutcome, tmSlept>>
lateVars == <<seqVars, regVars, gateVars, execVars, smpVars, termVars>>
\* everything outside the job / result layer
extVars  == <<provVars, runVars, tgtVars, wfVars, lateVars>>
vars     == <<jobVars, callVars, envVars, pollVars, extVars>>

----------------------------------------------------------------------------
(* Bounds *)

\* largest explicit shot count a caller asks for
MaxShots == 2
\* stand-in for the emulator's default sample count (used when shots is None)
DefaultSamples == 1
\* refreshes after which the cloud has resolved the job to a final status
MaxRefresh == 2
\* cancel() calls the caller makes
MaxCancel == 2
\* submit() calls the caller makes on one remote job
MaxSubmit == 2
\* non-final observations a remote batch reports before its final status
MaxPending == 3
\* entries of RemoteResults.results
MaxResults == 2

----------------------------------------------------------------------------
(* Values *)

Bitstrings == {"01", "11"}

\* a counts histogram: bitstring -> number of observations
ZeroCounts == [b \in Bitstrings |-> 0]

RECURSIVE SumOver(_, _)
SumOver(f, S) ==
    IF S = {} THEN 0
    ELSE LET x == CHOOSE y \in S : TRUE IN f[x] + SumOver(f, S \ {x})

CountsTotal(c) == SumOver(c, DOMAIN c)

CountsWithTotal(n) == {c \in [Bitstrings -> 0..n] : CountsTotal(c) = n}

\* Optional[int] : <<>> is None, <<n>> is n
NoneInt == <<>>
Some(n) == <<n>>

----------------------------------------------------------------------------
(* qiskit JobStatus values used by the jobs, and the final ones *)

JobStatuses == {"INITIALIZING", "RUNNING", "DONE", "ERROR", "CANCELLED"}
JOB_FINAL_STATES == {"DONE", "ERROR", "CANCELLED"}

(* statuses a pasqal_cloud job reports *)
CloudStatuses == {"PENDING", "RUNNING", "DONE", "ERROR", "CANCELED",
                  "TIMED_OUT", "PAUSED"}
JOB_EXECUTION_FINISHED == {"DONE", "CANCELED", "TIMED_OUT", "ERROR"}

LocalExecutors == {"QutipEmulator", "MPSBackend", "OneArgExecutor"}
RemoteBackends == {"remote-emu-free", "remote-emu-mps", "remote-emu-fresnel", "QPU"}

\* the metadata dict: the keys present and the values of those the code reads
EmptyMeta ==
    [keys |-> {}, shots |-> NoneInt, success |-> FALSE, config |-> "None",
     batch |-> "None", status |-> "None", backend_name |-> "", job_id |-> ""]

\* _result : never assigned / None / a PasqalResult
UnsetResult == [tag |-> "UNSET", backend_name |-> "", counts |-> ZeroCounts]
NoneResult  == [tag |-> "None", backend_name |-> "", counts |-> ZeroCounts]
MkResult(name, c) == [tag |-> "PasqalResult", backend_name |-> name, counts |-> c]

\* what an accessor handed back to the caller
NoReturn == [kind |-> "none", result |-> UnsetResult, status |-> "UNSET"]
ReturnedResult(r) == [kind |-> "result", result |-> r, status |-> "UNSET"]
ReturnedStatus(st) == [kind |-> "status", result |-> UnsetResult, status |-> st]

\* BackendV2.name of the job's backend
BackendName(b) ==
    CASE b = "qutip"   -> "QutipEmulatorBackend"
      [] b = "emu-mps" -> "EmuMpsBackend"
      [] OTHER         -> b

\* PasqalBackend.emulator of a remote backend (None for the QPU)
EmulatorOf(b) ==
    CASE b = "remote-emu-free"    -> "EMU_FREE"
      [] b = "remote-emu-mps"     -> "EMU_MPS"
      [] b = "remote-emu-fresnel" -> "EMU_FRESNEL"
      [] OTHER                    -> "None"

----------------------------------------------------------------------------
(* PasqalJob._eval_run_method : which call of executor.run the signature picks *)

\* inspect.getfullargspec(executor.run): argument names and number of defaults
RunArgSpec(ex) ==
    CASE ex = "QutipEmulator" -> [args |-> <<"self", "progress_bar">>, defaults |-> Some(1)]
      [] ex = "MPSBackend"    -> [args |-> <<"self">>, defaults |-> NoneInt]
      [] OTHER                -> [args |-> <<"sequence">>, defaults |-> NoneInt]

SeqMembers(q) == {q[i] : i \in 1..Len(q)}

EvalRunMethod(sig) ==
    IF SeqMembers(sig.args) = {"job_params", "wait"}
    THEN "run_job_params"
    ELSE IF Len(sig.args) - 1 > 0
            /\ (sig.defaults = NoneInt \/ sig.defaults[1] > 0)
    THEN "run"
    ELSE IF Len(sig.args) = 0
            \/ ("self" \in SeqMembers(sig.args) /\ Len(sig.args) = 1)
    THEN "run"
    ELSE "NotImplementedError"

\* what the executor's run returns
ResultsKind(ex) ==
    IF ex = "QutipEmulator" THEN "SimulationResults" ELSE "Results"

----------------------------------------------------------------------------
(* PasqalResult, local path *)

\* number of samples _get_counts draws
SampleSize(meta) ==
    IF meta.shots = NoneInt THEN DefaultSamples ELSE meta.shots[1]

\* "ok", or the exception _get_counts raises
GetCountsError(kind, meta) ==
    IF kind = "SimulationResults"
    THEN IF "shots" \in meta.keys THEN "ok" ELSE "KeyError"
    ELSE IF "config" \in meta.keys /\ meta.config # "None" THEN "ok" ELSE "ValueError"

\* _fetch_local_sim_results : metadata["shots"] = sum of the counts
FetchLocalMeta(meta, c) ==
    [meta EXCEPT !.keys = @ \cup {"shots"}, !.shots = Some(CountsTotal(c))]

\* _update_metadata(metadata, backend_name=..., job_id=...)
UpdateMetadata(meta, name, id) ==
    [meta EXCEPT !.keys = @ \cup {"backend_name", "job_id"},
                 !.backend_name = name, !.job_id = id]

\* getattr(self._executor, "_config", None): the values the attribute can hold
ExecutorConfigs(ex) ==
    CASE ex = "MPSBackend"    -> {"MPSConfig"}
      [] ex = "QutipEmulator" -> {"None", "SimConfig"}
      [] OTHER                -> {"None"}

----------------------------------------------------------------------------
(* PasqalResult, cloud-job-handle path (_fetch_cloud_results) *)

\* (mutation of CloudPollSet: the loop also waits on a canceled job)
CloudPollSet_WithCanceled == {"PENDING", "RUNNING", "CANCELED"}

\* the statuses for which the polling loop keeps going
CloudPollSet == {"PENDING", "RUNNING"}

\* first look at job_obj.status: "counts", "loop" or "ValueError"
CloudFirstLook(st) ==
    IF st = "DONE" THEN "counts"
    ELSE IF st \in CloudPollSet THEN "loop"
    ELSE "ValueError"

\* (mutation of CloudLoopLook: a job seen in ERROR is read like a DONE one)
CloudLoopLook_ErrorCounts(st) ==
    IF st \in {"DONE", "ERROR"} THEN "counts"
    ELSE IF st = "TIMED_OUT" THEN "ValueError"
    ELSE IF st \in CloudPollSet THEN "loop"
    ELSE "ValueError"

\* after batch.refresh() and the sleep, inside the loop
CloudLoopLook(st) ==
    IF st = "DONE" THEN "counts"
    ELSE IF st \in {"TIMED_OUT", "ERROR"} THEN "ValueError"
    ELSE IF st \in CloudPollSet THEN "loop"
    ELSE "ValueError"

----------------------------------------------------------------------------
(* PasqalRemoteJob.submit : the match on metadata["status"] *)

MatchStatus(st) ==
    CASE st = "DONE"                 -> "DONE"
      [] st \in {"TIMED_OUT", "ERROR"} -> "ERROR"
      [] st = "CANCELED"             -> "CANCELLED"
      [] OTHER                       -> "ERROR"

----------------------------------------------------------------------------
(* The components outside the job / result layer, at rest *)

\* no backend object
NoBackend == [cls |-> "None", emulator |-> "None", target |-> "None"]

ProvIdle ==
    /\ remoteConfig = "None"
    /\ platform = "linux"
    /\ gbTag = "none"
    /\ gbTarget = "None"
    /\ gbPc = "idle"
    /\ gbOutcome = "none"
    /\ gbBackend = NoBackend
    /\ gbLog = <<>>

NoRunArgs == [shots |-> NoneInt, values |-> FALSE, wait |-> TRUE]
NoRunEnv  == [circuitOk |-> TRUE, layoutOk |-> TRUE, registerOk |-> TRUE,
              seqOk |-> TRUE]

RunIdle ==
    /\ runBackend = "None"
    /\ runArgs = NoRunArgs
    /\ runEnv = NoRunEnv
    /\ runPc = "off"
    /\ runOutcome = "none"
    /\ runLog = <<>>

\* a device argument: a name, or a pulser Device / VirtualDevice object
NamedDevice(n) == [kind |-> "name", name |-> n, accepts |-> TRUE, precal |-> <<>>]
NoTgtArgs == [device |-> NamedDevice("analog"), layout |-> <<>>, cloud |-> <<>>]

TgtIdle ==
    /\ tgtArgs = NoTgtArgs
    /\ tgtPc = "off"
    /\ tgtAttrs = <<>>
    /\ tgtOutcome = "none"
    /\ tgtLayout = <<>>

NoWfValues == [kind |-> "none", items |-> <<>>]
NoWfReturn == [kind |-> "none", items |-> <<>>]

WfIdle ==
    /\ declared = {}
    /\ nDeclared = 0
    /\ wfValues = NoWfValues
    /\ wfReturn = NoWfReturn

\* names of the qiskit Parameters a gate's waveforms may use
VarNames == {"a", "d", "p"}
NoBinding == [n \in VarNames |-> <<>>]

SeqIdle ==
    /\ gsCircuit = <<>>
    /\ gsPc = "off"
    /\ gsK = 0
    /\ gsChannels = <<>>
    /\ gsPulses = <<>>
    /\ gsDeclared = {}
    /\ gsOutcome = "none"
    /\ gsValues = NoBinding
    /\ gsBuilt = <<>>

RegIdle ==
    /\ rgCircuit = <<>>
    /\ rgPc = "off"
    /\ rgK = 0
    /\ rgRegisters = <<>>
    /\ rgOutcome = "none"
    /\ rgReturn = "None"

\* an argument of HamiltonianGate: its class, and its duration and number of
\* values when it is an InterpolatePoints
NoPoints  == [cls |-> "None", duration |-> 0, n |-> 0]
NoHgArgs  == [amplitude |-> NoPoints, detuning |-> NoPoints, phase |-> "None",
              composed_wf |-> "None"]

GateIdle ==
    /\ hgArgs = NoHgArgs
    /\ hgPc = "off"
    /\ hgOutcome = "none"
    /\ hgBuilt = <<>>

ExecIdle ==
    /\ exClass = "None"
    /\ exPlatform = "linux"
    /\ exObjects = <<>>
    /\ exHandles = 0
    /\ exJobs = <<>>
    /\ exCalls = <<>>

\* the pubs argument: one object, or a list / tuple of pub-like objects
NoPubs == [kind |-> "None", items |-> <<>>]

SmpIdle ==
    /\ spPubs = NoPubs
    /\ spPc = "off"
    /\ spChosen = 0
    /\ spRan = <<>>
    /\ spEntries = 0
    /\ spOutcome = "none"

TermIdle ==
    /\ tmPath = "off"
    /\ tmRemote = "None"
    /\ tmJob = "None"
    /\ tmPc = "off"
    /\ tmOutcome = "none"
    /\ tmSlept = FALSE

LateIdle == SeqIdle /\ RegIdle /\ GateIdle /\ ExecIdle /\ SmpIdle /\ TermIdle

ExtIdle == ProvIdle /\ RunIdle /\ TgtIdle /\ WfIdle /\ LateIdle

----------------------------------------------------------------------------
(* Initial state: no job constructed, nothing polled *)

PollIdle ==
    /\ script = <<>>
    /\ observed = <<>>
    /\ remoteResults = <<>>
    /\ pollPc = "off"
    /\ matched = "None"
    /\ pollOutcome = "none"
    /\ pollCounts = ZeroCounts
    /\ pollSleeps = 0

JobIdle ==
    /\ jobKind = "none"
    /\ jobBackend = "None"
    /\ jobExecutor = "None"
    /\ jobWait = FALSE
    /\ jobStatus = "UNSET"
    /\ jobResult = UnsetResult
    /\ jobMeta = EmptyMeta
    /\ jobBatch = "None"
    /\ pc = "idle"
    /\ callOp = "none"
    /\ callOutcome = "ok"
    /\ callReturn = NoReturn
    /\ cloudStatus = "None"
    /\ cloudCounts = ZeroCounts
    /\ batchCalls = <<>>
    /\ nCancelReq = 0
    /\ nSleeps = 0

InitJob == JobIdle /\ PollIdle /\ ExtIdle

----------------------------------------------------------------------------
(* Construction *)

\* PasqalLocalJob.__init__ as the local backends call it
\* (backend, job_id, shots=..., qobj_id=..., backend_version=...)
NewLocalJob(backend, ex, shots) ==
    /\ pc = "idle"
    /\ jobKind = "none"
    /\ jobKind' = "local"
    /\ jobBackend' = backend
    /\ jobExecutor' = ex
    /\ jobMeta' = [EmptyMeta EXCEPT !.keys = {"shots", "qobj_id", "backend_version"},
                                    !.shots = shots]
    /\ jobResult' = NoneResult
    /\ jobStatus' = "INITIALIZING"
    /\ callOp' = "new"
    /\ callOutcome' = "ok"
    /\ UNCHANGED <<jobWait, jobBatch, pc, callReturn, envVars, pollVars, extVars>>

\* PasqalRemoteJob.__init__ : neither _status nor _result is assigned
NewRemoteJob(backend, wait) ==
    /\ pc = "idle"
    /\ jobKind = "none"
    /\ jobKind' = "remote"
    /\ jobBackend' = backend
    /\ jobExecutor' = "SDK"
    /\ jobMeta' = EmptyMeta
    /\ jobWait' = wait
    /\ jobBatch' = "None"
    /\ callOp' = "new"
    /\ callOutcome' = "ok"
    /\ UNCHANGED <<jobStatus, jobResult, pc, callReturn, envVars, pollVars, extVars>>

----------------------------------------------------------------------------
(* PasqalLocalJob.submit *)

\* self._status = JobStatus.RUNNING, then on to _eval_run_method
LocalSubmitBegin ==
    /\ pc = "idle"
    /\ jobKind = "local"
    /\ jobStatus' = "RUNNING"
    /\ pc' = "local_run"
    /\ callOp' = "submit"
    /\ callOutcome' = "running"
    /\ UNCHANGED <<jobKind, jobBackend, jobExecutor, jobWait, jobResult, jobMeta,
                   jobBatch, callReturn, envVars, pollVars, extVars>>

\* _eval_run_method raises NotImplementedError, or the executor's run raises:
\* nothing catches it, submit() is left through the exception
LocalExecutorRaises ==
    /\ pc = "local_run"
    /\ callOutcome' =
          IF EvalRunMethod(RunArgSpec(jobExecutor)) = "NotImplementedError"
          THEN "NotImplementedError" ELSE "ExecutorError"
    /\ pc' = "idle"
    /\ UNCHANGED <<jobVars, callOp, callReturn, envVars, pollVars, extVars>>

\* the metadata after lines 49-50 of jobs.py
LocalSubmitMeta(meta, cfg) ==
    [meta EXCEPT !.keys = @ \cup {"success", "config"}, !.success = TRUE, !.config = cfg]

\* (mutation of LocalSubmitEndStatus: the final assignment is lost)
LocalSubmitEndStatus_Lost == "RUNNING"

\* status the job is left in when submit() ran to its end
LocalSubmitEndStatus == "DONE"

\* the executor's run returns: metadata, PasqalResult, DONE
LocalExecutorReturns ==
    /\ pc = "local_run"
    /\ EvalRunMethod(RunArgSpec(jobExecutor)) # "NotImplementedError"
    /\ \E cfg \in ExecutorConfigs(jobExecutor) :
         LET meta1 == LocalSubmitMeta(jobMeta, cfg)
             err   == GetCountsError(ResultsKind(jobExecutor), meta1)
         IN  IF err # "ok"
             THEN /\ jobMeta' = meta1
                  /\ callOutcome' = err
                  /\ UNCHANGED <<jobResult, jobStatus>>
             ELSE \E c \in CountsWithTotal(SampleSize(meta1)) :
                  /\ jobMeta' = UpdateMetadata(FetchLocalMeta(meta1, c),
                                               BackendName(jobBackend), "uuid")
                  /\ jobResult' = MkResult(BackendName(jobBackend), c)
                  /\ jobStatus' = LocalSubmitEndStatus
                  /\ callOutcome' = "ok"
    /\ pc' = "idle"
    /\ UNCHANGED <<jobKind, jobBackend, jobExecutor, jobWait, jobBatch, callOp,
                   callReturn, envVars, pollVars, extVars>>

----------------------------------------------------------------------------
(* PasqalRemoteJob.submit *)

RemoteSubmitBegin ==
    /\ pc = "idle"
    /\ jobKind = "remote"
    /\ Len(batchCalls) < MaxSubmit
    /\ jobStatus' = "RUNNING"
    /\ pc' = "create_batch"
    /\ callOp' = "submit"
    /\ callOutcome' = "running"
    /\ nSleeps' = 0
    /\ UNCHANGED <<jobKind, jobBackend, jobExecutor, jobWait, jobResult, jobMeta,
                   jobBatch, callReturn, cloudStatus, cloudCounts, batchCalls,
                   nCancelReq, pollVars, extVars>>

\* the arguments of the create_batch call
BatchCall(backend, wait) ==
    [emulator |-> IF backend = "QPU" THEN "not passed" ELSE EmulatorOf(backend),
     wait |-> wait]

\* what the cloud reports for the job's counts in a given status
CloudCountsFor(st) ==
    IF st = "DONE" THEN UNION {CountsWithTotal(n) : n \in 1..MaxShots}
    ELSE {ZeroCounts}

\* self._executor.create_batch(...) ; self.metadata = {"batch": ..., "status": None}
\* With wait=True the SDK returns once the jobs have finished.
CreateBatch ==
    /\ pc = "create_batch"
    /\ \E st \in (IF jobWait THEN JOB_EXECUTION_FINISHED ELSE CloudStatuses) :
         /\ cloudStatus' = st
         /\ \E c \in CloudCountsFor(st) : cloudCounts' = c
    /\ batchCalls' = Append(batchCalls, BatchCall(jobBackend, jobWait))
    /\ jobBatch' = "batch"
    /\ jobMeta' = [EmptyMeta EXCEPT !.keys = {"batch", "status"}, !.batch = "batch"]
    /\ pc' = "cloud_first"
    /\ UNCHANGED <<jobKind, jobBackend, jobExecutor, jobWait, jobStatus, jobResult,
                   callOp, callOutcome, callReturn, nCancelReq, nSleeps, pollVars, extVars>>

\* PasqalResult(...) got its counts: _update_metadata, then self._result = ...
RemoteResultBuilt ==
    /\ jobMeta' = UpdateMetadata(jobMeta, BackendName(jobBackend), "")
    /\ jobResult' = MkResult(BackendName(jobBackend), cloudCounts)
    /\ pc' = "match"
    /\ UNCHANGED callOutcome

\* _fetch_cloud_results raised: the exception leaves submit()
RemoteResultRaised(exc) ==
    /\ pc' = "idle"
    /\ callOutcome' = exc
    /\ UNCHANGED <<jobMeta, jobResult>>

\* _fetch_cloud_results, lines 158-166: the first look at the job's status
CloudFirst ==
    /\ pc = "cloud_first"
    /\ LET look == CloudFirstLook(cloudStatus)
       IN  CASE look = "counts" -> RemoteResultBuilt
             [] look = "loop"   -> /\ pc' = "cloud_loop"
                                   /\ UNCHANGED <<jobMeta, jobResult, callOutcome>>
             [] OTHER           -> RemoteResultRaised("ValueError")
    /\ UNCHANGED <<jobKind, jobBackend, jobExecutor, jobWait, jobStatus, jobBatch,
                   callOp, callReturn, envVars, pollVars, extVars>>

\* one turn of the loop, lines 166-174: batch.refresh(), time.sleep, two tests.
\* The cloud resolves the job within MaxRefresh refreshes.
CloudLoopTurn ==
    /\ pc = "cloud_loop"
    /\ \E st \in CloudStatuses :
         /\ st \in CloudPollSet => nSleeps + 1 < MaxRefresh
         /\ cloudStatus' = st
         /\ \E c \in CloudCountsFor(st) : cloudCounts' = c
         /\ nSleeps' = nSleeps + 1
         /\ LET look == CloudLoopLook(st)
            IN  CASE look = "counts" ->
                       /\ jobMeta' = UpdateMetadata(jobMeta, BackendName(jobBackend), "")
                       /\ jobResult' = MkResult(BackendName(jobBackend), cloudCounts')
                       /\ pc' = "match"
                       /\ UNCHANGED callOutcome
                  [] look = "loop"   -> UNCHANGED <<pc, jobMeta, jobResult, callOutcome>>
                  [] OTHER           -> RemoteResultRaised("ValueError")
    /\ UNCHANGED <<jobKind, jobBackend, jobExecutor, jobWait, jobStatus, jobBatch,
                   callOp, callReturn, batchCalls, nCancelReq, pollVars, extVars>>

\* lines 130-142: the match on metadata["status"], then submit() returns
RemoteMatch ==
    /\ pc = "match"
    /\ jobStatus' = MatchStatus(jobMeta.status)
    /\ pc' = "idle"
    /\ callOutcome' = "ok"
    /\ UNCHANGED <<jobKind, jobBackend, jobExecutor, jobWait, jobResult, jobMeta,
                   jobBatch, callOp, callReturn, envVars, pollVars, extVars>>

----------------------------------------------------------------------------
(* Accessors and cancel *)

\* PasqalJob.result : return self._result
ResultCall ==
    /\ pc = "idle"
    /\ jobKind # "none"
    /\ callOp' = "result"
    /\ IF jobResult.tag = "UNSET"
       THEN callOutcome' = "AttributeError" /\ callReturn' = NoReturn
       ELSE callOutcome' = "ok" /\ callReturn' = ReturnedResult(jobResult)
    /\ UNCHANGED <<jobVars, pc, envVars, pollVars, extVars>>

\* PasqalJob.status : return self._status
StatusCall ==
    /\ pc = "idle"
    /\ jobKind # "none"
    /\ callOp' = "status"
    /\ IF jobStatus = "UNSET"
       THEN callOutcome' = "AttributeError" /\ callReturn' = NoReturn
       ELSE callOutcome' = "ok" /\ callReturn' = ReturnedStatus(jobStatus)
    /\ UNCHANGED <<jobVars, pc, envVars, pollVars, extVars>>

\* PasqalLocalJob.cancel : raise NotImplementedError()
LocalCancel ==
    /\ pc = "idle"
    /\ jobKind = "local"
    /\ callOp' = "cancel"
    /\ callOutcome' = "NotImplementedError"
    /\ UNCHANGED <<jobVars, pc, callReturn, envVars, pollVars, extVars>>

\* PasqalRemoteJob.cancel : self._batch.cancel()
RemoteCancel ==
    /\ pc = "idle"
    /\ jobKind = "remote"
    /\ callOp' = "cancel"
    /\ IF jobBatch = "None"
       THEN /\ callOutcome' = "AttributeError"
            /\ UNCHANGED <<nCancelReq, cloudStatus>>
       ELSE /\ nCancelReq < MaxCancel
            /\ nCancelReq' = nCancelReq + 1
            /\ callOutcome' = "ok"
            /\ cloudStatus' \in
                 IF cloudStatus \in JOB_EXECUTION_FINISHED
                 THEN {cloudStatus} ELSE {cloudStatus, "CANCELED"}
    /\ UNCHANGED <<jobVars, pc, callReturn, cloudCounts, batchCalls, nSleeps, pollVars, extVars>>

----------------------------------------------------------------------------
(* The job specification *)

Shots == {NoneInt} \cup {Some(n) : n \in 1..MaxShots}

NextJob ==
    \/ \E ex \in LocalExecutors, sh \in Shots :
         NewLocalJob(IF ex = "MPSBackend" THEN "emu-mps" ELSE "qutip", ex, sh)
    \/ \E b \in RemoteBackends, w \in BOOLEAN : NewRemoteJob(b, w)
    \/ LocalSubmitBegin
    \/ LocalExecutorRaises
    \/ LocalExecutorReturns
    \/ RemoteSubmitBegin
    \/ CreateBatch
    \/ CloudFirst
    \/ CloudLoopTurn
    \/ RemoteMatch
    \/ ResultCall
    \/ StatusCall
    \/ LocalCancel
    \/ RemoteCancel

SpecJob == InitJob /\ [][NextJob]_vars

----------------------------------------------------------------------------
(* PasqalResult._fetch_remote_pulser_sim_results (session-polled path) *)

\* pulser's BatchStatus, plus a value the match statement does not know
BatchStatuses == {"PENDING", "RUNNING", "DONE", "CANCELED", "TIMED_OUT", "ERROR",
                  "PAUSED"}
UnknownStatus == "UNKNOWN"
\* statuses a batch reports while it has not ended, and those it ends in
NonFinalBatch == {"PENDING", "RUNNING", "PAUSED", UnknownStatus}
FinalBatch    == {"DONE", "CANCELED", "TIMED_OUT", "ERROR", UnknownStatus}

\* sampling distributions a remote result can carry
PollDists == CountsWithTotal(1)

RECURSIVE SeqsUpTo(_, _)
\* all sequences over S of length 0..n
SeqsUpTo(S, n) ==
    IF n = 0 THEN {<<>>}
    ELSE LET shorter == SeqsUpTo(S, n - 1)
         IN  shorter \cup {Append(q, x) : q \in {r \in shorter : Len(r) = n - 1}, x \in S}

\* results.get_batch_status(): the n-th call reports the n-th entry of the
\* script; the final entry is reported from then on
StatusAtPoll(n) == script[IF n < Len(script) THEN n ELSE Len(script)]
NextObserved == StatusAtPoll(Len(observed) + 1)

\* (mutation of OuterPollSet: the loop waits on PENDING only)
OuterPollSet_PendingOnly == {"PENDING"}

\* line 115: the statuses for which the first loop sleeps and polls again
OuterPollSet == {"PENDING", "RUNNING"}
\* lines 136-140: the statuses for which the PAUSED branch sleeps and recurses
PausedPollSet == {"PENDING", "RUNNING", "PAUSED"}

\* lines 121-145: what get_result() does for the status it matched on
MatchBatchStatus(st) ==
    CASE st = "DONE"      -> "counts"
      [] st = "CANCELED"  -> "ValueError: Remote execution was canceled."
      [] st = "TIMED_OUT" -> "ValueError: Remote execution timed out."
      [] st = "ERROR"     -> "ValueError: Remote execution error."
      [] st = "PAUSED"    -> "paused"
      [] OTHER            -> "NotImplementedError"

\* line 124: results.results[0].sampling_dist
FirstSamplingDist(results) == results[1]

InitPoll ==
    /\ JobIdle
    /\ ExtIdle
    /\ \E prefix \in SeqsUpTo(NonFinalBatch, MaxPending), final \in FinalBatch :
         script = Append(prefix, final)
    /\ remoteResults \in SeqsUpTo(PollDists, MaxResults) \ {<<>>}
    /\ observed = <<>>
    /\ pollPc = "while"
    /\ matched = "None"
    /\ pollOutcome = "none"
    /\ pollCounts = ZeroCounts
    /\ pollSleeps = 0

\* lines 115-116: one evaluation of the first loop's condition
OuterPoll ==
    /\ pollPc = "while"
    /\ observed' = Append(observed, NextObserved)
    /\ IF NextObserved \in OuterPollSet
       THEN pollSleeps' = pollSleeps + 1 /\ UNCHANGED pollPc
       ELSE pollPc' = "get_result" /\ UNCHANGED pollSleeps
    /\ UNCHANGED <<script, remoteResults, matched, pollOutcome, pollCounts,
                   jobVars, callVars, envVars, extVars>>

\* lines 121-145: get_result() polls once and dispatches on what it saw
GetResult ==
    /\ pollPc = "get_result"
    /\ observed' = Append(observed, NextObserved)
    /\ matched' = NextObserved
    /\ LET what == MatchBatchStatus(NextObserved)
       IN  CASE what = "counts" ->
                  /\ pollOutcome' = "counts"
                  /\ pollCounts' = FirstSamplingDist(remoteResults)
                  /\ pollPc' = "done"
             [] what = "paused" ->
                  /\ pollPc' = "paused_while"
                  /\ UNCHANGED <<pollOutcome, pollCounts>>
             [] OTHER ->
                  /\ pollOutcome' = what
                  /\ pollPc' = "done"
                  /\ UNCHANGED pollCounts
    /\ UNCHANGED <<script, remoteResults, pollSleeps, jobVars, callVars, envVars, extVars>>

\* lines 136-147: the PAUSED branch polls once more; in the set it sleeps and
\* returns get_result(); otherwise control leaves the match and reaches the
\* raise on line 147
PausedPoll ==
    /\ pollPc = "paused_while"
    /\ observed' = Append(observed, NextObserved)
    /\ IF NextObserved \in PausedPollSet
       THEN /\ pollSleeps' = pollSleeps + 1
            /\ pollPc' = "get_result"
            /\ UNCHANGED pollOutcome
       ELSE /\ pollOutcome' = "NotImplementedError"
            /\ pollPc' = "done"
            /\ UNCHANGED pollSleeps
    /\ UNCHANGED <<script, remoteResults, matched, pollCounts, jobVars, callVars,
                   envVars, extVars>>

NextPoll ==
    \/ OuterPoll
    \/ GetResult
    \/ PausedPoll

SpecPoll == InitPoll /\ [][NextPoll]_vars

----------------------------------------------------------------------------
(* Properties of the job state machine (checked under SpecJob)              *)

SubmitReturned == callOp = "submit" /\ pc = "idle"

StatusStepAllowed(s, t) ==
    \/ s = t
    \/ s = "UNSET"
    \/ s = "INITIALIZING" /\ t = "RUNNING"
    \/ s = "RUNNING" /\ t \in JOB_FINAL_STATES

\* C1: the status of a job only moves INITIALIZING -> RUNNING -> {DONE, ERROR,
\* CANCELLED}, and once it is DONE, ERROR or CANCELLED no later call changes it.
\* (A status attribute that was never assigned counts as no status at all.)
C1_StatusLifecycle == [][StatusStepAllowed(jobStatus, jobStatus')]_vars

\* the image the specification gives for a batch's final status
ClaimedImage(st) ==
    CASE st = "DONE"                 -> "DONE"
      [] st \in {"TIMED_OUT", "ERROR"} -> "ERROR"
      [] st = "CANCELED"             -> "CANCELLED"
      [] OTHER                       -> "ERROR"

\* C2: when PasqalRemoteJob.submit() with wait=true is over, the job's status is
\* the image of the status the batch ended in (DONE -> DONE, TIMED_OUT or ERROR
\* -> ERROR, CANCELED -> CANCELLED, anything else -> ERROR).
C2_WaitStatusIsImage ==
    (jobKind = "remote" /\ jobWait /\ SubmitReturned)
        => jobStatus = ClaimedImage(cloudStatus)

\* C3: PasqalRemoteJob.submit() with wait=false never sleeps in a polling loop
\* and is over with the job's status RUNNING.
C3_NoWaitReturnsRunning ==
    (jobKind = "remote" /\ ~jobWait)
        => /\ nSleeps = 0
           /\ SubmitReturned => jobStatus = "RUNNING"

\* the local backends' jobs: qutip holds a QutipEmulator, emu-mps an MPSBackend
BackendJob == jobKind = "local" /\ jobExecutor \in {"QutipEmulator", "MPSBackend"}

\* C4: PasqalLocalJob.submit() has set the status to RUNNING when the executor's
\* run is invoked; when the executor has returned, submit() leaves the job DONE
\* with a PasqalResult as its result, and result() on that job returns it.
C4_LocalSubmitRunsThenDone ==
    /\ pc = "local_run" => jobStatus = "RUNNING"
    /\ (BackendJob /\ SubmitReturned /\ callOutcome # "ExecutorError")
          => /\ callOutcome = "ok"
             /\ jobStatus = "DONE"
             /\ jobResult.tag = "PasqalResult"
    /\ (BackendJob /\ callOp = "result" /\ jobStatus = "DONE")
          => /\ callOutcome = "ok"
             /\ callReturn = ReturnedResult(jobResult)
             /\ jobResult.tag = "PasqalResult"

\* a qutip job whose submit() ran to its end and whose result() was then read
C4_Witness ==
    /\ jobKind = "local" /\ jobExecutor = "QutipEmulator"
    /\ callOp = "result" /\ callOutcome = "ok"
    /\ jobStatus = "DONE"
    /\ callReturn.result.tag = "PasqalResult"
    /\ CountsTotal(callReturn.result.counts) = MaxShots

\* C5: when the local executor raised during submit(), the job is left in status
\* ERROR and its metadata holds the exception.
C5_ExecutorErrorGivesError ==
    (jobKind = "local" /\ SubmitReturned
       /\ callOutcome \in {"ExecutorError", "NotImplementedError"})
        => /\ jobStatus = "ERROR"
           /\ "exception" \in jobMeta.keys

\* a call of result() or status()
AccessorStep == pc = "idle" /\ callOp' \in {"result", "status"}

\* C6: on a job that is not in a final state, result() returns None and raises
\* nothing; result() and status() change nothing of the job.
C6_ResultNoneBeforeFinal ==
    /\ []((jobKind # "none" /\ callOp = "result" /\ jobStatus \notin JOB_FINAL_STATES)
            => (callOutcome = "ok" /\ callReturn = ReturnedResult(NoneResult)))
    /\ [][AccessorStep => UNCHANGED <<jobVars, envVars>>]_vars

\* a call of cancel() on a local job or on a job in a final state
RefusedCancelStep ==
    /\ pc = "idle"
    /\ callOp' = "cancel"
    /\ jobKind = "local" \/ jobStatus \in JOB_FINAL_STATES

\* C7: cancel() on a local job, or on a remote job in a final state, raises
\* (NotImplementedError stands for NotCancellable), sends no cancellation
\* request and leaves the status as it was.
C7_CancelRefused ==
    [][RefusedCancelStep =>
         /\ callOutcome' = "NotImplementedError"
         /\ nCancelReq' = nCancelReq
         /\ jobStatus' = jobStatus]_vars

----------------------------------------------------------------------------
(* Properties of the session-polled normalisation (checked under SpecPoll)  *)

PollDone == pollPc = "done"
ScriptFinal == script[Len(script)]
ScriptPrefix == {script[i] : i \in 1..(Len(script) - 1)}

\* C8: a batch that reports PENDING or RUNNING for any number of polls and then
\* DONE yields exactly the sampling distribution of its first result.
C8_PendingRunningDoneGivesCounts ==
    (PollDone /\ ScriptPrefix \subseteq {"PENDING", "RUNNING"} /\ ScriptFinal = "DONE")
        => /\ pollOutcome = "counts"
           /\ pollCounts = remoteResults[1]

\* PENDING, RUNNING, then DONE, with two results that differ
C8_Witness ==
    /\ PollDone
    /\ Len(script) >= 3 /\ script[1] = "PENDING" /\ script[Len(script) - 1] = "RUNNING"
    /\ ScriptPrefix \subseteq {"PENDING", "RUNNING"} /\ ScriptFinal = "DONE"
    /\ Len(remoteResults) >= 2 /\ remoteResults[1] # remoteResults[2]
    /\ pollCounts = remoteResults[1]
    /\ pollSleeps = Len(script) - 1

\* the script reports PAUSED, then only PAUSED, PENDING or RUNNING, then DONE
PausedThenDone ==
    /\ ScriptFinal = "DONE"
    /\ \E i \in 1..(Len(script) - 1) :
         /\ script[i] = "PAUSED"
         /\ \A j \in (i + 1)..(Len(script) - 1) :
              script[j] \in {"PAUSED", "PENDING", "RUNNING"}

\* C9: a batch observed PAUSED, then PAUSED, PENDING or RUNNING any number of
\* times, then DONE yields the counts and no error.
C9_PausedResumesPolling ==
    (PollDone /\ PausedThenDone) => pollOutcome = "counts"

\* the error the specification names for a final status
NamedError(st) ==
    CASE st = "CANCELED"  -> "ValueError: Remote execution was canceled."
      [] st = "TIMED_OUT" -> "ValueError: Remote execution timed out."
      [] st = "ERROR"     -> "ValueError: Remote execution error."
      [] OTHER            -> "NotImplementedError"

\* the status the last poll reported
LastObserved == observed[Len(observed)]

\* C10: a batch seen to have ended CANCELED, TIMED_OUT or ERROR yields no counts
\* and the error named after that status; a status outside the seven known
\* ones yields NotImplementedError.
C10_FailedBatchNamedError ==
    /\ (PollDone /\ LastObserved \in {"CANCELED", "TIMED_OUT", "ERROR"})
          => pollOutcome = NamedError(LastObserved)
    /\ (PollDone /\ matched = UnknownStatus)
          => pollOutcome = "NotImplementedError"

----------------------------------------------------------------------------
(* Properties of the cloud-job-handle normalisation (checked under SpecJob) *)

\* the step on which _fetch_cloud_results returns or raises
CloudFetchEnds ==
    /\ pc \in {"cloud_first", "cloud_loop"}
    /\ pc' \notin {"cloud_first", "cloud_loop"}

\* C11: _fetch_cloud_results returns the counts of the batch's last job exactly
\* when that job is seen DONE, at once or after polling; it polls (refresh,
\* then sleep) only while the job is PENDING or RUNNING; for every other
\* status it raises the generic ValueError and no result is built.
C11_CloudCountsIffDone ==
    /\ [][CloudFetchEnds =>
            IF cloudStatus' = "DONE"
            THEN /\ pc' = "match"
                 /\ jobResult' = MkResult(BackendName(jobBackend), cloudCounts')
            ELSE /\ pc' = "idle"
                 /\ callOutcome' = "ValueError"
                 /\ jobResult' = jobResult]_vars
    /\ [][(pc = "cloud_first" /\ cloudStatus \in {"PENDING", "RUNNING"})
            => pc' = "cloud_loop"]_vars
    /\ [][pc' = "cloud_loop" => cloudStatus' \in {"PENDING", "RUNNING"}]_vars
    /\ [][(pc = "cloud_loop" /\ pc' \in {"cloud_loop", "match"})
            => nSleeps' = nSleeps + 1]_vars

\* a job seen DONE only after the last refresh the cloud needs
C11_Witness ==
    /\ jobKind = "remote" /\ pc = "match"
    /\ nSleeps = MaxRefresh
    /\ cloudStatus = "DONE"
    /\ jobResult.counts = cloudCounts
    /\ CountsTotal(cloudCounts) = MaxShots

\* metadata names a failure: a status was written, or a key beyond those
\* submit() and PasqalResult always write is present
FailureReasonStored ==
    \/ "status" \in jobMeta.keys /\ jobMeta.status # "None"
    \/ ~(jobMeta.keys \subseteq {"batch", "status", "backend_name", "job_id"})

\* C12: when result retrieval failed during PasqalRemoteJob.submit(), the job
\* is left in status ERROR and its metadata holds the failure reason.
C12_RemoteFailureGivesError ==
    (jobKind = "remote" /\ SubmitReturned /\ callOutcome = "ValueError")
        => /\ jobStatus = "ERROR"
           /\ FailureReasonStored

\* the job holds the PasqalResult the current submit() built, and jobMeta is
\* the dict that result was built on
ResultJustBuilt ==
    /\ jobResult.tag = "PasqalResult"
    /\ pc = "match" \/ (SubmitReturned /\ callOutcome = "ok")

\* C13: the metadata of every PasqalResult contains backend_name, job_id and
\* the realized shots.
C13_MetadataStamped ==
    ResultJustBuilt
        => /\ {"backend_name", "job_id", "shots"} \subseteq jobMeta.keys
           /\ jobMeta.shots # NoneInt

\* the step on which a PasqalResult is built
ResultBuiltStep ==
    \/ pc = "local_run" /\ callOutcome' = "ok"
    \/ pc \in {"cloud_first", "cloud_loop"} /\ pc' = "match"

\* C14: the counts of a Result are non-negative integers; for a run that asked
\* for S shots they sum to S; the shots recorded in the metadata equal the sum.
C14_CountsSumToShots ==
    [][ResultBuiltStep =>
         /\ \A b \in Bitstrings : jobResult'.counts[b] \in Nat
         /\ (jobKind = "local" /\ jobMeta.shots # NoneInt)
               => CountsTotal(jobResult'.counts) = jobMeta.shots[1]
         /\ "shots" \in jobMeta'.keys
         /\ jobMeta'.shots = Some(CountsTotal(jobResult'.counts))]_vars

----------------------------------------------------------------------------
(* PasqalProvider.get_backend (provider.py) with PasqalLocalBackend.__new__  *)
(* (backends/local.py) and PasqalRemoteBackend.__new__ (backends/remote.py)  *)

\* the values of the enum PasqalBackendType
PasqalBackendType == {"qutip", "emu-mps", "remote-emu-free", "remote-emu-mps",
                      "remote-emu-fresnel", "fresnel"}

\* tags a caller passes: the enum's values, "qpu", and two the tests use
Tags == PasqalBackendType \cup {"qpu", "does-not-exist", "remote-qutip"}
Platforms == {"linux", "win32"}
LocalClasses  == {"QutipEmulatorBackend", "EmuMpsBackend"}
RemoteClasses == {"EmuRemoteBackend", "QPUBackend"}

\* (mutation of InBackendType: any non-empty string passes the test)
InBackendType_AnyString(tag) == tag # ""

\* provider.py 61: backend_name in PasqalBackendType (membership by value)
InBackendType(tag) == tag \in PasqalBackendType

\* local.py 33-48: the class PasqalLocalBackend.__new__ constructs, or what it raises
LocalDispatch(tag, plat) ==
    CASE tag = "qutip"   -> "QutipEmulatorBackend"
      [] tag = "emu-mps" -> IF plat \notin {"win32", "cygwin"}
                            THEN "EmuMpsBackend" ELSE "ImportError"
      [] OTHER           -> "NotImplementedError"

\* remote.py 30-50: the class PasqalRemoteBackend.__new__ constructs, or what it raises
RemoteDispatch(tag) ==
    CASE tag \in {"remote-emu-free", "remote-emu-mps", "remote-emu-fresnel"}
                         -> "EmuRemoteBackend"
      [] tag = "fresnel" -> "QPUBackend"
      [] OTHER           -> "NotImplementedError"

\* (mutation of RemoteConfigAsserted: the assertion is gone)
RemoteConfigAsserted_Stripped(cfg) == cfg \in {"None", "RemoteConfig"}

\* provider.py 72-74: assert self.remote_config is not None
RemoteConfigAsserted(cfg) == cfg # "None"

nonProvVars == <<jobVars, callVars, envVars, pollVars, runVars, tgtVars, wfVars,
                 lateVars>>

\* PasqalProvider.__init__ has stored remote_config
InitProv ==
    /\ JobIdle /\ PollIdle /\ RunIdle /\ TgtIdle /\ WfIdle /\ LateIdle
    /\ remoteConfig \in {"None", "RemoteConfig"}
    /\ platform \in Platforms
    /\ gbTag = "none"
    /\ gbTarget = "None"
    /\ gbPc = "idle"
    /\ gbOutcome = "none"
    /\ gbBackend = NoBackend
    /\ gbLog = <<>>

\* get_backend is entered: line 61, and line 88 when the test fails
GetBackend(tag, target) ==
    /\ gbPc = "idle"
    /\ gbTag' = tag
    /\ gbTarget' = target
    /\ gbLog' = <<>>
    /\ gbBackend' = NoBackend
    /\ IF InBackendType(tag)
       THEN gbPc' = "local_new" /\ gbOutcome' = "none"
       ELSE gbPc' = "idle" /\ gbOutcome' = "ValueError"
    /\ UNCHANGED <<remoteConfig, platform, nonProvVars>>

\* lines 63-68: PasqalLocalBackend(backend=..., target=...) ; a missing target
\* is replaced by PasqalTarget() before the tag is looked at
LocalBackendNew ==
    /\ gbPc = "local_new"
    /\ LET log1 == IF gbTarget = "None" THEN <<"PasqalTarget">> ELSE <<>>
           made == LocalDispatch(gbTag, platform)
       IN  CASE made \in LocalClasses ->
                  /\ gbLog' = Append(log1, made)
                  /\ gbBackend' = [cls |-> made, emulator |-> "None",
                                   target |-> IF gbTarget = "None" THEN "default"
                                              ELSE gbTarget]
                  /\ gbOutcome' = "backend"
                  /\ gbPc' = "idle"
             [] made = "NotImplementedError" ->
                  /\ gbLog' = log1
                  /\ gbPc' = "assert"
                  /\ UNCHANGED <<gbBackend, gbOutcome>>
             [] OTHER ->
                  /\ gbLog' = log1
                  /\ gbOutcome' = made
                  /\ gbPc' = "idle"
                  /\ UNCHANGED gbBackend
    /\ UNCHANGED <<remoteConfig, platform, gbTag, gbTarget, nonProvVars>>

\* lines 72-74: the assertion; an AssertionError is not caught by line 83
RemoteConfigAssert ==
    /\ gbPc = "assert"
    /\ IF RemoteConfigAsserted(remoteConfig)
       THEN gbPc' = "remote_new" /\ UNCHANGED gbOutcome
       ELSE gbPc' = "idle" /\ gbOutcome' = "AssertionError"
    /\ UNCHANGED <<remoteConfig, platform, gbTag, gbTarget, gbBackend, gbLog,
                   nonProvVars>>

\* lines 76-84: PasqalRemoteBackend(...). EmuRemoteBackend.__init__ and
\* QPUBackend.__init__ read the configuration, open a PasqalCloud and, unless
\* a target was handed to the emulator backend, fetch the device from the cloud
RemoteBackendNew ==
    /\ gbPc = "remote_new"
    /\ gbPc' = "idle"
    /\ LET made  == RemoteDispatch(gbTag)
           fetch == made = "QPUBackend" \/ gbTarget = "None"
       IN  CASE made = "NotImplementedError" ->
                  /\ gbOutcome' = "ValueError"
                  /\ UNCHANGED <<gbLog, gbBackend>>
             [] made # "NotImplementedError" /\ remoteConfig = "None" ->
                  /\ gbOutcome' = "AttributeError"
                  /\ gbLog' = Append(gbLog, made)
                  /\ UNCHANGED gbBackend
             [] OTHER ->
                  \E fetched \in BOOLEAN :
                    /\ gbLog' = gbLog \o <<made, "PasqalCloud">> \o
                           (IF fetch THEN <<"fetch_available_devices">> ELSE <<>>)
                    /\ IF fetch /\ ~fetched
                       THEN gbOutcome' = "CloudError" /\ UNCHANGED gbBackend
                       ELSE /\ gbOutcome' = "backend"
                            /\ gbBackend' =
                                 [cls |-> made,
                                  emulator |-> EmulatorOf(gbTag),
                                  target |-> IF fetch THEN "cloud" ELSE gbTarget]
    /\ UNCHANGED <<remoteConfig, platform, gbTag, gbTarget, nonProvVars>>

NextProv ==
    \/ \E tag \in Tags, target \in {"None", "target"} : GetBackend(tag, target)
    \/ LocalBackendNew
    \/ RemoteConfigAssert
    \/ RemoteBackendNew

SpecProv == InitProv /\ [][NextProv]_vars

----------------------------------------------------------------------------
(* Properties of get_backend (checked under SpecProv)                       *)

\* a call of get_backend is over
GbDone == gbPc = "idle" /\ gbTag # "none"

\* the closed set of supported tags
ClosedTagSet == {"qutip", "emu-mps", "remote-emu-free", "remote-emu-mps",
                 "remote-emu-fresnel", "fresnel", "qpu"}
LocalTags  == {"qutip", "emu-mps"}
RemoteTags == {"remote-emu-free", "remote-emu-mps", "remote-emu-fresnel", "fresnel"}

\* the backend class the closed set gives each tag
ClaimedClass(tag) ==
    CASE tag = "qutip"   -> "QutipEmulatorBackend"
      [] tag = "emu-mps" -> "EmuMpsBackend"
      [] tag \in {"fresnel", "qpu"} -> "QPUBackend"
      [] OTHER -> "EmuRemoteBackend"

C16_ClosedSetRouted ==
    (GbDone /\ gbTag \in ClosedTagSet)
        => /\ gbOutcome # "ValueError"
           /\ (gbTag \in LocalTags /\ gbOutcome = "backend")
                 => gbBackend.cls = ClaimedClass(gbTag)
           /\ (gbTag \notin LocalTags /\ remoteConfig # "None")
                 => ClaimedClass(gbTag) \in SeqMembers(gbLog)

----------------------------------------------------------------------------
(* QPUBackend.run (backends/qpu.py) and EmuRemoteBackend.run                *)
(* (backends/emu_remote.py), statement by statement                         *)

\* the register goes through automatic layout and validation
UsesAutoLayout(b) == b = "QPU" \/ EmulatorOf(b) = "EMU_FRESNEL"

\* (mutation of AfterGetRegister: the layout / validation block is skipped)
AfterGetRegister_NoLayout(b) == "gen_seq"

\* the statement that follows get_register_from_circuit
\* (qpu.py 90 ; emu_remote.py 89)
AfterGetRegister(b) == IF UsesAutoLayout(b) THEN "auto_layout" ELSE "gen_seq"

\* the first statement of run (emu_remote.py 83 ; qpu.py 87)
FirstStatement(b) == IF b = "QPU" THEN "get_register" ELSE "assert_shots"

RunEnvs == [circuitOk : BOOLEAN, layoutOk : BOOLEAN, registerOk : BOOLEAN,
            seqOk : BOOLEAN]

nonRunVars == <<jobVars, callVars, envVars, pollVars, provVars, tgtVars, wfVars,
                lateVars>>

\* run(run_input, shots, values, wait) is called on a remote backend
InitRun ==
    /\ JobIdle /\ PollIdle /\ ProvIdle /\ TgtIdle /\ WfIdle /\ LateIdle
    /\ runBackend \in RemoteBackends
    /\ runArgs \in [shots : Shots, values : BOOLEAN, wait : BOOLEAN]
    /\ runEnv \in RunEnvs
    /\ runPc = FirstStatement(runBackend)
    /\ runOutcome = "none"
    /\ runLog = <<>>

\* the statement at runPc called `what`: it either raised `exc` or went on to `next`
RunStatement(what, ok, exc, next) ==
    /\ runLog' = Append(runLog, what)
    /\ IF ok
       THEN runPc' = next /\ UNCHANGED runOutcome
       ELSE runPc' = "done" /\ runOutcome' = exc
    /\ UNCHANGED <<runBackend, runArgs, runEnv, nonRunVars>>

\* emu_remote.py 83: assert shots is not None
RunAssertShots ==
    /\ runPc = "assert_shots"
    /\ IF runArgs.shots # NoneInt
       THEN runPc' = "get_register" /\ UNCHANGED runOutcome
       ELSE runPc' = "done" /\ runOutcome' = "AssertionError"
    /\ UNCHANGED <<runBackend, runArgs, runEnv, runLog, nonRunVars>>

\* qpu.py 87 ; emu_remote.py 85-87
RunGetRegister ==
    /\ runPc = "get_register"
    /\ RunStatement("get_register_from_circuit", runEnv.circuitOk, "ValueError",
                    AfterGetRegister(runBackend))

\* qpu.py 90 ; emu_remote.py 91-93
RunAutoLayout ==
    /\ runPc = "auto_layout"
    /\ RunStatement("with_automatic_layout", runEnv.layoutOk, "LayoutError",
                    "validate")

\* qpu.py 93 ; emu_remote.py 96
RunValidate ==
    /\ runPc = "validate"
    /\ RunStatement("validate_register", runEnv.registerOk, "RegisterError",
                    "gen_seq")

\* qpu.py 96-100 ; emu_remote.py 98-102
RunGenSeq ==
    /\ runPc = "gen_seq"
    /\ RunStatement("gen_seq", runEnv.seqOk, "SequenceError",
                    IF runArgs.values THEN "build" ELSE "create_job")

\* qpu.py 102-103 ; emu_remote.py 104-105
RunBuild ==
    /\ runPc = "build"
    /\ RunStatement("build", TRUE, "none", "create_job")

\* qpu.py 105-109 ; emu_remote.py 107-111: CreateJob, deepcopy, PasqalRemoteJob
RunCreateJob ==
    /\ runPc = "create_job"
    /\ RunStatement("PasqalRemoteJob", TRUE, "none", "submit")

\* qpu.py 111-112 ; emu_remote.py 113-114: job.submit() calls create_batch;
\* the result retrieval inside submit() may raise
RunSubmit ==
    /\ runPc = "submit"
    /\ runLog' = Append(runLog, "create_batch")
    /\ runPc' = "done"
    /\ runOutcome' \in {"job", "ValueError"}
    /\ UNCHANGED <<runBackend, runArgs, runEnv, nonRunVars>>

NextRun ==
    \/ RunAssertShots
    \/ RunGetRegister
    \/ RunAutoLayout
    \/ RunValidate
    \/ RunGenSeq
    \/ RunBuild
    \/ RunCreateJob
    \/ RunSubmit

SpecRun == InitRun /\ [][NextRun]_vars

----------------------------------------------------------------------------
(* Properties of run (checked under SpecRun)                                *)

\* every occurrence of b in the log has an a before it
CalledBefore(a, b) ==
    \A j \in 1..Len(runLog) :
        runLog[j] = b => \E i \in 1..(j - 1) : runLog[i] = a

RunLogged(what) == what \in SeqMembers(runLog)

\* C18: in QPUBackend.run, and in EmuRemoteBackend.run for EMU_FRESNEL, the
\* register is laid out and validated before the sequence is generated; when
\* validation fails run raises, and neither gen_seq nor PasqalRemoteJob nor
\* create_batch has been called.
C18_ValidatedBeforeSequence ==
    (runBackend = "QPU" \/ runBackend = "remote-emu-fresnel")
        => /\ CalledBefore("with_automatic_layout", "validate_register")
           /\ CalledBefore("validate_register", "gen_seq")
           /\ ~runEnv.registerOk
                => /\ ~RunLogged("gen_seq")
                   /\ ~RunLogged("PasqalRemoteJob")
                   /\ ~RunLogged("create_batch")
                   /\ runPc = "done" => runOutcome \notin {"none", "job"}

\* the EMU_FRESNEL emulator refusing a register the device cannot hold
C18_Witness ==
    /\ runBackend = "remote-emu-fresnel"
    /\ runPc = "done"
    /\ runOutcome = "RegisterError"
    /\ runLog = <<"get_register_from_circuit", "with_automatic_layout",
                  "validate_register">>

----------------------------------------------------------------------------
(* PasqalTarget.__init__ (target.py): _get_device, then _get_layout         *)

\* longest tuple of pre-calibrated layouts a device object carries
MaxPrecal == 2

Layouts == {"L1", "L2", "L3"}

\* a pulser Device object, and a VirtualDevice (which has neither attribute;
\* it takes any layout and has none calibrated)
DeviceObject(acc, pre) ==
    [kind |-> "Device", name |-> "custom", accepts |-> acc, precal |-> pre]
VirtualDeviceObject ==
    [kind |-> "VirtualDevice", name |-> "MockVirtualDevice", accepts |-> TRUE,
     precal |-> <<>>]
\* a cloud whose fetch_available_devices() has no usable "FRESNEL" entry
Unavailable ==
    [kind |-> "unavailable", name |-> "FRESNEL", accepts |-> TRUE, precal |-> <<>>]

DeviceObjects ==
    {DeviceObject(acc, pre) : acc \in BOOLEAN, pre \in SeqsUpTo(Layouts, MaxPrecal)}

\* AVAILABLE_DEVICES: AnalogDevice comes with one calibrated layout and takes
\* new ones, DigitalAnalogDevice comes with none
AVAILABLE_DEVICES ==
    [n \in {"analog", "hybrid"} |->
        IF n = "analog" THEN [accepts |-> TRUE, precal |-> <<"L1">>]
        ELSE [accepts |-> TRUE, precal |-> <<>>]]

\* the values of PasqalDeviceType
PasqalDeviceType == {"analog", "hybrid", "fresnel"}

\* Device.is_calibrated_layout
IsCalibratedLayout(l, pre) == l \in SeqMembers(pre)

LayoutOk(l) == [ok |-> TRUE, layout |-> l]
LayoutError == [ok |-> FALSE, layout |-> <<>>]

\* _get_layout, lines 130-149
GetLayout(layout, attrs) ==
    IF layout = <<>>
    THEN IF attrs.precal # <<>> THEN LayoutOk(<<attrs.precal[1]>>) ELSE LayoutError
    ELSE IF attrs.accepts
         THEN IF attrs.precal # <<>>
              THEN IF IsCalibratedLayout(layout[1], attrs.precal)
                   THEN LayoutOk(layout) ELSE LayoutError
              ELSE LayoutOk(layout)
         ELSE LayoutError

\* _get_device, lines 96-113: the attributes it sets, or the exception
GetDevice(device, cloud) ==
    IF cloud # <<>>
    THEN IF cloud[1].kind = "unavailable"
         THEN [error |-> "CloudError", attrs |-> <<>>]
         ELSE [error |-> "none",
               attrs |-> <<[accepts |-> cloud[1].accepts, precal |-> cloud[1].precal]>>]
    ELSE IF device.kind = "name"
    THEN IF device.name \in DOMAIN AVAILABLE_DEVICES
         THEN [error |-> "none", attrs |-> <<AVAILABLE_DEVICES[device.name]>>]
         ELSE [error |-> "KeyError", attrs |-> <<>>]
    ELSE IF device.kind = "Device"
    THEN [error |-> "none",
          attrs |-> <<[accepts |-> device.accepts, precal |-> device.precal]>>]
    ELSE [error |-> "TypeError", attrs |-> <<>>]

nonTgtVars == <<jobVars, callVars, envVars, pollVars, provVars, runVars, wfVars,
                lateVars>>

\* PasqalTarget(device, layout, cloud) is called
InitTgt ==
    /\ JobIdle /\ PollIdle /\ ProvIdle /\ RunIdle /\ WfIdle /\ LateIdle
    /\ \E l \in {<<>>} \cup {<<x>> : x \in Layouts} :
         \/ \E d \in {NamedDevice(n) : n \in PasqalDeviceType}
                       \cup DeviceObjects \cup {VirtualDeviceObject} :
              tgtArgs = [device |-> d, layout |-> l, cloud |-> <<>>]
         \/ \E c \in DeviceObjects \cup {Unavailable} :
              tgtArgs = [device |-> NamedDevice("analog"), layout |-> l,
                         cloud |-> <<c>>]
    /\ tgtPc = "get_device"
    /\ tgtAttrs = <<>>
    /\ tgtOutcome = "none"
    /\ tgtLayout = <<>>

\* line 87: self._device = self._get_device(device)
TgtGetDevice ==
    /\ tgtPc = "get_device"
    /\ LET r == GetDevice(tgtArgs.device, tgtArgs.cloud)
       IN  /\ tgtAttrs' = r.attrs
           /\ IF r.error = "none"
              THEN tgtPc' = "get_layout" /\ UNCHANGED tgtOutcome
              ELSE tgtPc' = "done" /\ tgtOutcome' = r.error
    /\ UNCHANGED <<tgtArgs, tgtLayout, nonTgtVars>>

\* line 88: self._layout = self._get_layout(layout)
TgtGetLayout ==
    /\ tgtPc = "get_layout"
    /\ LET r == GetLayout(tgtArgs.layout, tgtAttrs[1])
       IN  /\ tgtLayout' = r.layout
           /\ tgtOutcome' = IF r.ok THEN "target" ELSE "ValueError"
    /\ tgtPc' = "done"
    /\ UNCHANGED <<tgtArgs, tgtAttrs, nonTgtVars>>

NextTgt ==
    \/ TgtGetDevice
    \/ TgtGetLayout

SpecTgt == InitTgt /\ [][NextTgt]_vars

----------------------------------------------------------------------------
(* Properties of PasqalTarget (checked under SpecTgt)                       *)

\* the constructor was given, or could fetch, a device
HasDevice ==
    IF tgtArgs.cloud # <<>> THEN tgtArgs.cloud[1].kind # "unavailable"
    ELSE tgtArgs.device.kind = "name" => tgtArgs.device.name \in DOMAIN AVAILABLE_DEVICES

\* that device's layout properties
TheDevice ==
    IF tgtArgs.cloud # <<>> THEN tgtArgs.cloud[1]
    ELSE IF tgtArgs.device.kind = "name"
         THEN AVAILABLE_DEVICES[tgtArgs.device.name]
         ELSE tgtArgs.device

\* the three cases in which construction is to fail
ClaimedFailure ==
    \/ tgtArgs.layout = <<>> /\ TheDevice.precal = <<>>
    \/ tgtArgs.layout # <<>> /\ ~TheDevice.accepts
    \/ /\ tgtArgs.layout # <<>>
       /\ TheDevice.precal # <<>>
       /\ tgtArgs.layout[1] \notin SeqMembers(TheDevice.precal)

\* C19: PasqalTarget construction fails exactly when (a) no layout is given
\* and the device has no pre-calibrated layout, (b) a layout is given and the
\* device refuses new layouts, or (c) a layout is given, the device has
\* pre-calibrated layouts and the given one is not among them; otherwise the
\* target's layout is the given one, or the device's first pre-calibrated
\* layout when none was given.
C19_TargetLayoutCases ==
    (tgtPc = "done" /\ HasDevice)
        => /\ tgtOutcome # "target" <=> ClaimedFailure
           /\ tgtOutcome = "target"
                => tgtLayout = IF tgtArgs.layout # <<>> THEN tgtArgs.layout
                               ELSE <<TheDevice.precal[1]>>

----------------------------------------------------------------------------
(* _get_wf_values(seq, values) on one pulser Sequence (pulse_utils.py)      *)

\* longest list / tuple of values passed in one call
MaxListLen == 2
\* Variable objects one Sequence is let to create
MaxVariables == 3

\* names of the qiskit Parameters in use
Names == {"p", "q"}
\* an element of values: a Parameter (by name), a number, None, or a
\* ParameterExpression
NumberTok == "1.0"
NoneTok   == "None"
ExprTok   == "p+1"
Tokens == Names \cup {NumberTok, NoneTok, ExprTok}

\* the values argument: a single element, or a list / tuple of elements
WfValues ==
    {[kind |-> "single", items |-> <<t>>] : t \in Tokens}
      \cup {[kind |-> "list", items |-> q] : q \in SeqsUpTo(Tokens, MaxListLen)}

\* a pulser Variable; id tells two Variable objects apart
NoVar == [name |-> "", size |-> 0, id |-> 0]
Variable(n, sz, i) == [name |-> n, size |-> sz, id |-> i]

\* what resolving one element gives
NumRes    == [kind |-> "number", var |-> NoVar]
NoneRes   == [kind |-> "None", var |-> NoVar]
ErrRes    == [kind |-> "NotImplementedError", var |-> NoVar]
VarRes(v) == [kind |-> "Variable", var |-> v]

\* (mutation of NameDeclared: the name is never found, so it is declared anew)
NameDeclared_Never(n, decl) == FALSE

\* lines 377 and 404: name in seq.declared_variables
NameDeclared(n, decl) == \E v \in decl : v.name = n

\* seq.declared_variables[name]
Lookup(n, decl) == CHOOSE v \in decl : v.name = n

\* declare_variable(name, size=sz) unless the name is declared: the Sequence's
\* variables, the number created so far and the Variable handed back
DeclareOrGet(n, sz, decl, cnt) ==
    IF NameDeclared(n, decl)
    THEN [decl |-> decl, cnt |-> cnt, res |-> VarRes(Lookup(n, decl))]
    ELSE LET v == Variable(n, sz, cnt + 1)
         IN  [decl |-> decl \cup {v}, cnt |-> cnt + 1, res |-> VarRes(v)]

\* one element: lines 370-371, 400-420
ResolveOne(tok, decl, cnt) ==
    CASE tok \in Names   -> DeclareOrGet(tok, 1, decl, cnt)
      [] tok = NumberTok -> [decl |-> decl, cnt |-> cnt, res |-> NumRes]
      [] tok = NoneTok   -> [decl |-> decl, cnt |-> cnt, res |-> NoneRes]
      [] OTHER           -> [decl |-> decl, cnt |-> cnt, res |-> ErrRes]

\* line 376: every element is a Parameter and they are all the same one
Homogeneous(items) ==
    /\ \A i \in 1..Len(items) : items[i] \in Names
    /\ Cardinality(SeqMembers(items)) = 1

RECURSIVE ResolveEach(_, _, _)
\* lines 392-398: the elements from index i on, in order; None results are
\* dropped, an exception stops the loop
ResolveEach(items, i, st) ==
    IF i > Len(items) \/ st.error THEN st
    ELSE LET r == ResolveOne(items[i], st.decl, st.cnt)
         IN  ResolveEach(items, i + 1,
                 [decl  |-> r.decl,
                  cnt   |-> r.cnt,
                  out   |-> IF r.res.kind \in {"None", "NotImplementedError"}
                            THEN st.out ELSE Append(st.out, r.res),
                  error |-> r.res.kind = "NotImplementedError"])

\* _get_wf_values : the Sequence's variables afterwards and the value returned
ResolveValues(values, decl, cnt) ==
    IF values.kind = "single"
    THEN LET r == ResolveOne(values.items[1], decl, cnt)
         IN  [decl |-> r.decl, cnt |-> r.cnt,
              ret |-> [kind |-> r.res.kind,
                       items |-> IF r.res.kind \in {"number", "Variable"}
                                 THEN <<r.res>> ELSE <<>>]]
    ELSE IF Homogeneous(values.items)
    THEN LET r == DeclareOrGet(values.items[1], Len(values.items), decl, cnt)
         IN  [decl |-> r.decl, cnt |-> r.cnt,
              ret |-> [kind |-> "Variable", items |-> <<r.res>>]]
    ELSE LET st == ResolveEach(values.items, 1,
                       [decl |-> decl, cnt |-> cnt, out |-> <<>>, error |-> FALSE])
         IN  [decl |-> st.decl, cnt |-> st.cnt,
              ret |-> IF st.error
                      THEN [kind |-> "NotImplementedError", items |-> <<>>]
                      ELSE IF Len(st.out) = 1
                      THEN [kind |-> st.out[1].kind, items |-> st.out]
                      ELSE [kind |-> "tuple", items |-> st.out]]

nonWfVars == <<jobVars, callVars, envVars, pollVars, provVars, runVars, tgtVars,
               lateVars>>

\* a Sequence on which nothing has been declared
InitWf ==
    /\ JobIdle /\ PollIdle /\ ProvIdle /\ RunIdle /\ TgtIdle /\ LateIdle
    /\ declared = {}
    /\ nDeclared = 0
    /\ wfValues = NoWfValues
    /\ wfReturn = NoWfReturn

\* one call _get_wf_values(seq, values)
GetWfValues ==
    /\ nDeclared < MaxVariables
    /\ \E values \in WfValues :
         LET r == ResolveValues(values, declared, nDeclared)
         IN  /\ wfValues' = values
             /\ declared' = r.decl
             /\ nDeclared' = r.cnt
             /\ wfReturn' = r.ret
    /\ UNCHANGED nonWfVars

NextWf == GetWfValues

SpecWf == InitWf /\ [][NextWf]_vars

----------------------------------------------------------------------------
(* Properties of value resolution (checked under SpecWf)                    *)

VariablesNamed(n) == {v \in declared : v.name = n}

\* the last call resolved the symbol n, alone or as a list of n
ResolvedSymbol(n) ==
    /\ wfValues.kind \in {"single", "list"}
    /\ wfValues.items # <<>>
    /\ SeqMembers(wfValues.items) = {n}

\* C20: a Sequence never holds two variables of one name and never replaces a
\* declared variable; once the symbol p has been resolved, alone or as a
\* homogeneous list of p, it holds exactly one variable named p, and every
\* such resolution returns that variable.
C20_OneVariablePerName ==
    /\ [](\A n \in Names :
            /\ Cardinality(VariablesNamed(n)) <= 1
            /\ ResolvedSymbol(n)
                 => /\ Cardinality(VariablesNamed(n)) = 1
                    /\ wfReturn.kind = "Variable"
                    /\ wfReturn.items[1].var \in VariablesNamed(n))
    /\ [][declared \subseteq declared']_vars

\* p was declared by a single-symbol resolution; a list of p then returns
\* that size-1 variable, and q is declared besides
C20_Witness ==
    /\ wfValues.kind = "list"
    /\ Len(wfValues.items) = MaxListLen
    /\ ResolvedSymbol("p")
    /\ wfReturn.kind = "Variable"
    /\ wfReturn.items[1].var = Variable("p", 1, 1)
    /\ Cardinality(declared) = 2

----------------------------------------------------------------------------
(* gen_seq(analog_register, device, circuit)  (pulse_utils.py)              *)

\* instructions of one circuit
MaxInstr == 2
\* control points of one InterpolatePoints
NPoints == 2
\* InterpolatePoints' default duration, in ns
DefaultDuration == 1000

\* concrete control points
Ones  == [i \in 1..NPoints |-> 1]
Zeros == [i \in 1..NPoints |-> 0]
Ramp  == [i \in 1..NPoints |-> i - 1]

\* the values of an InterpolatePoints: numbers, or NPoints times one Parameter
\* (InterpolatePoints(values=Parameter(name), n=NPoints))
Numbers(t)   == [sym |-> "", val |-> t]
Symbolic(n)  == [sym |-> n, val |-> <<>>]
NoValues     == Numbers(<<>>)

\* the phase of a gate: a float, an int, or an InterpolatePoints
FloatPhase     == [kind |-> "float", values |-> NoValues]
IntPhase       == [kind |-> "int", values |-> NoValues]
PointsPhase(v) == [kind |-> "InterpolatePoints", values |-> v]
Phases == {FloatPhase, IntPhase, PointsPhase(Numbers(Zeros)),
           PointsPhase(Numbers(Ramp)), PointsPhase(Symbolic("p"))}

\* a gate with waveform properties, and one without (a digital gate)
AnalogGates ==
    [analog : {TRUE},
     amplitude : {Numbers(Ones), Symbolic("a")},
     detuning : {Numbers(Ramp), Symbolic("d")},
     phase : Phases]
DigitalGate == [analog |-> FALSE, amplitude |-> NoValues, detuning |-> NoValues,
                phase |-> FloatPhase]
Gates == AnalogGates \cup {DigitalGate}

\* what _get_wf_values returns for the values of an InterpolatePoints, and the
\* ObjWrapper around it: a declared Variable (by name) or a tuple of numbers
Term(var, val) == [var |-> var, val |-> val]
NoTerm == Term("", <<>>)

\* the values of a waveform: one term, or the sum of two
WfConst(t)  == [op |-> "one", l |-> t, r |-> NoTerm]
WfAdd(l, r) == [op |-> "add", l |-> l, r |-> r]
NoWf == [op |-> "none", l |-> NoTerm, r |-> NoTerm]

\* _get_wf_values on the values of an InterpolatePoints (lines 373-398): a
\* homogeneous list of one Parameter is the Variable of that name, a list of
\* numbers is the tuple of them
GsWfValues(values) ==
    IF values.sym # "" THEN Term(values.sym, <<>>) ELSE Term("", values.val)

\* names _get_wf_values declares for these values (lines 377-383)
GsDeclares(values) == IF values.sym # "" THEN {values.sym} ELSE {}

\* _gen_phase_wf line 342 : reduce(lambda x, y: x + y.data, ...) over the
\* detuning and the phase wrapper. tuple + tuple concatenates; a Variable on
\* either side makes `+` the parametrized elementwise sum.
GenPhaseWf(det, phase) ==
    IF det.var = "" /\ phase.var = ""
    THEN WfConst(Term("", det.val \o phase.val))
    ELSE WfAdd(det, phase)

\* line 480 : isinstance(gate.phase, float)
IsScalarPhase(phase) == phase.kind = "float"

\* (mutation of SeqAdd: the pulse is put in front of those already there)
SeqAdd_InFront(pulses, pulse) == <<pulse>> \o pulses

\* line 497 : seq.add(pulse, channel_name)
SeqAdd(pulses, pulse) == Append(pulses, pulse)

\* line 483 : Pulse(amp_wf, det_wf, phase)
DirectPulse(k, gate) ==
    [src |-> k, path |-> "direct", duration |-> DefaultDuration,
     amp |-> WfConst(GsWfValues(gate.amplitude)),
     det |-> WfConst(GsWfValues(gate.detuning)),
     phase |-> "scalar", phaseWf |-> NoWf]

\* lines 487-495, 304-317 : Pulse.ArbitraryPhase(ampl_wf, phase_wf); the
\* detuning of the pulse derives from phase_wf
PhasePulse(k, gate) ==
    [src |-> k, path |-> "modulated", duration |-> DefaultDuration,
     amp |-> WfConst(GsWfValues(gate.amplitude)),
     det |-> NoWf,
     phase |-> "waveform",
     phaseWf |-> GenPhaseWf(GsWfValues(gate.detuning),
                            GsWfValues(gate.phase.values))]

nonSeqVars == <<jobVars, callVars, envVars, pollVars, provVars, runVars, tgtVars,
                wfVars, regVars, gateVars, execVars, smpVars, termVars>>

InitSeq ==
    /\ JobIdle /\ PollIdle /\ ProvIdle /\ RunIdle /\ TgtIdle /\ WfIdle
    /\ RegIdle /\ GateIdle /\ ExecIdle /\ SmpIdle /\ TermIdle
    /\ gsCircuit \in SeqsUpTo(Gates, MaxInstr)
    /\ gsPc = "declare"
    /\ gsK = 0
    /\ gsChannels = <<>>
    /\ gsPulses = <<>>
    /\ gsDeclared = {}
    /\ gsOutcome = "none"
    /\ gsValues = NoBinding
    /\ gsBuilt = <<>>

\* lines 442-444 : Sequence(...) and declare_channel
GsDeclareChannel ==
    /\ gsPc = "declare"
    /\ gsChannels' = Append(gsChannels, "rydberg_global")
    /\ gsK' = 1
    /\ gsPc' = "loop"
    /\ UNCHANGED <<gsCircuit, gsPulses, gsDeclared, gsOutcome, gsValues, gsBuilt,
                   nonSeqVars>>

\* lines 450-457 : the gate has no waveform properties
GsNotAnalog ==
    /\ gsPc = "loop" /\ gsK <= Len(gsCircuit)
    /\ ~gsCircuit[gsK].analog
    /\ gsPc' = "failed"
    /\ gsOutcome' = "AssertionError"
    /\ UNCHANGED <<gsCircuit, gsK, gsChannels, gsPulses, gsDeclared, gsValues,
                   gsBuilt, nonSeqVars>>

\* lines 459-483, 497 : one turn of the loop on a gate with a scalar phase
GsDirect ==
    /\ gsPc = "loop" /\ gsK <= Len(gsCircuit)
    /\ LET gate == gsCircuit[gsK]
       IN  /\ gate.analog
           /\ IsScalarPhase(gate.phase)
           /\ gsDeclared' = gsDeclared \cup GsDeclares(gate.amplitude)
                                       \cup GsDeclares(gate.detuning)
           /\ gsPulses' = SeqAdd(gsPulses, DirectPulse(gsK, gate))
    /\ gsK' = gsK + 1
    /\ UNCHANGED <<gsCircuit, gsPc, gsChannels, gsOutcome, gsValues, gsBuilt,
                   nonSeqVars>>

\* lines 459-478, 485-497 : one turn of the loop on a gate whose phase is an
\* InterpolatePoints
GsModulated ==
    /\ gsPc = "loop" /\ gsK <= Len(gsCircuit)
    /\ LET gate == gsCircuit[gsK]
       IN  /\ gate.analog
           /\ ~IsScalarPhase(gate.phase)
           /\ gate.phase.kind = "InterpolatePoints"
           /\ gsDeclared' = gsDeclared \cup GsDeclares(gate.amplitude)
                                       \cup GsDeclares(gate.detuning)
                                       \cup GsDeclares(gate.phase.values)
           /\ gsPulses' = SeqAdd(gsPulses, PhasePulse(gsK, gate))
    /\ gsK' = gsK + 1
    /\ UNCHANGED <<gsCircuit, gsPc, gsChannels, gsOutcome, gsValues, gsBuilt,
                   nonSeqVars>>

\* lines 459-478, 485-489, 304 : the phase is neither a float nor an
\* InterpolatePoints, and phase.values raises
GsPhaseHasNoValues ==
    /\ gsPc = "loop" /\ gsK <= Len(gsCircuit)
    /\ LET gate == gsCircuit[gsK]
       IN  /\ gate.analog
           /\ ~IsScalarPhase(gate.phase)
           /\ gate.phase.kind # "InterpolatePoints"
           /\ gsDeclared' = gsDeclared \cup GsDeclares(gate.amplitude)
                                       \cup GsDeclares(gate.detuning)
    /\ gsPc' = "failed"
    /\ gsOutcome' = "AttributeError"
    /\ UNCHANGED <<gsCircuit, gsK, gsChannels, gsPulses, gsValues, gsBuilt,
                   nonSeqVars>>

\* line 499 : return seq
GsReturn ==
    /\ gsPc = "loop" /\ gsK > Len(gsCircuit)
    /\ gsPc' = "done"
    /\ gsOutcome' = "sequence"
    /\ UNCHANGED <<gsCircuit, gsK, gsChannels, gsPulses, gsDeclared, gsValues,
                   gsBuilt, nonSeqVars>>

\* the value a term takes once the variables are given their values
EvalTerm(t, values) == IF t.var = "" THEN t.val ELSE values[t.var]

\* operator.add on two arrays of one length
SumPoints(x, y) == [i \in 1..Len(x) |-> x[i] + y[i]]

\* the control points of a waveform once built
EvalWf(wf, values) ==
    CASE wf.op = "one" -> EvalTerm(wf.l, values)
      [] wf.op = "add" -> SumPoints(EvalTerm(wf.l, values), EvalTerm(wf.r, values))
      [] OTHER         -> <<>>

BuiltPulse(pulse, values) ==
    [src |-> pulse.src, path |-> pulse.path,
     amp |-> EvalWf(pulse.amp, values),
     det |-> EvalWf(pulse.det, values),
     phaseWf |-> EvalWf(pulse.phaseWf, values)]

\* seq.build(**values) on the Sequence gen_seq returned, with NPoints values
\* for every variable
GsBuild ==
    /\ gsPc = "done"
    /\ \E values \in [VarNames -> {Ones, Ramp}] :
         /\ gsValues' = values
         /\ gsBuilt' = [k \in 1..Len(gsPulses) |-> BuiltPulse(gsPulses[k], values)]
    /\ gsPc' = "built"
    /\ UNCHANGED <<gsCircuit, gsK, gsChannels, gsPulses, gsDeclared, gsOutcome,
                   nonSeqVars>>

NextSeq ==
    \/ GsDeclareChannel
    \/ GsNotAnalog
    \/ GsDirect
    \/ GsModulated
    \/ GsPhaseHasNoValues
    \/ GsReturn
    \/ GsBuild

SpecSeq == InitSeq /\ [][NextSeq]_vars

----------------------------------------------------------------------------
(* Properties of gen_seq (checked under SpecSeq)                            *)

\* the pulse gen_seq builds from the k-th instruction, on either path
PulseOf(k) == {DirectPulse(k, gsCircuit[k]), PhasePulse(k, gsCircuit[k])}

\* C21: gen_seq declares the one global channel exactly once, and after k
\* turns of its loop the sequence holds exactly k pulses, the j-th of them the
\* pulse built from the j-th instruction of circuit.data; the sequence
\* returned holds one pulse per instruction, in the order of circuit.data.
C21_PulsesFollowInstructions ==
    /\ gsPc \in {"loop", "done", "built", "failed"}
         => gsChannels = <<"rydberg_global">>
    /\ gsPc \in {"loop", "done", "built"}
         => /\ Len(gsPulses) = gsK - 1
            /\ \A j \in 1..Len(gsPulses) : gsPulses[j] \in PulseOf(j)
    /\ gsPc \in {"done", "built"} => Len(gsPulses) = Len(gsCircuit)

\* a sequence was returned for MaxInstr instructions that took different paths
C21_Witness ==
    /\ gsPc = "done"
    /\ Len(gsCircuit) = MaxInstr
    /\ gsPulses[1].path = "modulated"
    /\ gsPulses[MaxInstr].path = "direct"

\* the loop has dealt with the k-th instruction: it added its pulse, or it
\* raised on it
DealtWith(k) == k < gsK \/ (gsPc = "failed" /\ k = gsK)

\* C25: every instruction with a scalar numeric phase (float or integer) gets
\* the pulse Pulse(amplitude, detuning, phase), built without modulation, and
\* every instruction whose phase is an InterpolatePoints, with concrete or
\* symbolic values, gets the phase-modulated pulse.
C25_TwoPhasePaths ==
    \A k \in 1..Len(gsCircuit) :
        (DealtWith(k) /\ gsCircuit[k].analog)
            => /\ k <= Len(gsPulses)
               /\ gsCircuit[k].phase.kind \in {"float", "int"}
                    => gsPulses[k] = DirectPulse(k, gsCircuit[k])
               /\ gsCircuit[k].phase.kind = "InterpolatePoints"
                    => gsPulses[k] = PhasePulse(k, gsCircuit[k])

\* the phase waveform of the k-th instruction compiled with its detuning
\* given as the concrete tuple v
ConcretePhaseWf(k, v) ==
    EvalWf(GenPhaseWf(Term("", v), GsWfValues(gsCircuit[k].phase.values)),
           gsValues)

\* C30: on the phase-modulation path, a gate compiled with a symbolic
\* detuning and then built with the values v has the phase-waveform control
\* points of the same gate compiled with the concrete detuning v.
C30_SymbolicMatchesConcrete ==
    gsPc = "built"
        => \A k \in 1..Len(gsBuilt) :
               (gsBuilt[k].path = "modulated" /\ gsCircuit[k].detuning.sym # "")
                   => gsBuilt[k].phaseWf
                        = ConcretePhaseWf(k, gsValues[gsCircuit[k].detuning.sym])

----------------------------------------------------------------------------
(* get_register_from_circuit(run_input)  (pulse_utils.py)                   *)

\* gates of one circuit
MaxGates == 3

\* the registers analog gates carry; NoRegister is a gate's operation without
\* an analog_register attribute
Registers  == {"r1", "r2"}
NoRegister == "none"
RegGates   == Registers \cup {NoRegister}

\* (mutation of TooManyRegisters: only different registers are too many)
TooManyRegisters_Distinct(registers) == Cardinality(SeqMembers(registers)) > 1

\* line 549 : len(registers) > 1
TooManyRegisters(registers) == Len(registers) > 1

nonRegVars == <<jobVars, callVars, envVars, pollVars, provVars, runVars, tgtVars,
                wfVars, seqVars, gateVars, execVars, smpVars, termVars>>

InitReg ==
    /\ JobIdle /\ PollIdle /\ ProvIdle /\ RunIdle /\ TgtIdle /\ WfIdle
    /\ SeqIdle /\ GateIdle /\ ExecIdle /\ SmpIdle /\ TermIdle
    /\ rgCircuit \in SeqsUpTo(RegGates, MaxGates)
    /\ rgPc = "loop"
    /\ rgK = 1
    /\ rgRegisters = <<>>
    /\ rgOutcome = "none"
    /\ rgReturn = "None"

\* lines 540-543 : the gate has an analog_register
RgAppend ==
    /\ rgPc = "loop" /\ rgK <= Len(rgCircuit)
    /\ rgCircuit[rgK] # NoRegister
    /\ rgRegisters' = Append(rgRegisters, rgCircuit[rgK])
    /\ rgK' = rgK + 1
    /\ UNCHANGED <<rgCircuit, rgPc, rgOutcome, rgReturn, nonRegVars>>

\* lines 545-546 : it has none
RgNotAnalog ==
    /\ rgPc = "loop" /\ rgK <= Len(rgCircuit)
    /\ rgCircuit[rgK] = NoRegister
    /\ rgPc' = "done"
    /\ rgOutcome' = "ValueError"
    /\ UNCHANGED <<rgCircuit, rgK, rgRegisters, rgReturn, nonRegVars>>

\* lines 549-552
RgTooMany ==
    /\ rgPc = "loop" /\ rgK > Len(rgCircuit)
    /\ TooManyRegisters(rgRegisters)
    /\ rgPc' = "done"
    /\ rgOutcome' = "ValueError"
    /\ UNCHANGED <<rgCircuit, rgK, rgRegisters, rgReturn, nonRegVars>>

\* line 554 : return registers[0]
RgReturn ==
    /\ rgPc = "loop" /\ rgK > Len(rgCircuit)
    /\ ~TooManyRegisters(rgRegisters)
    /\ rgRegisters # <<>>
    /\ rgPc' = "done"
    /\ rgOutcome' = "register"
    /\ rgReturn' = rgRegisters[1]
    /\ UNCHANGED <<rgCircuit, rgK, rgRegisters, nonRegVars>>

\* line 554 on an empty list
RgNoRegister ==
    /\ rgPc = "loop" /\ rgK > Len(rgCircuit)
    /\ ~TooManyRegisters(rgRegisters)
    /\ rgRegisters = <<>>
    /\ rgPc' = "done"
    /\ rgOutcome' = "IndexError"
    /\ UNCHANGED <<rgCircuit, rgK, rgRegisters, rgReturn, nonRegVars>>

NextReg ==
    \/ RgAppend
    \/ RgNotAnalog
    \/ RgTooMany
    \/ RgReturn
    \/ RgNoRegister

SpecReg == InitReg /\ [][NextReg]_vars

----------------------------------------------------------------------------
(* Properties of register extraction (checked under SpecReg)                *)

\* the registers the analog gates of the circuit carry
CarriedRegisters == SeqMembers(rgCircuit) \ {NoRegister}

\* C22 (as stated): extraction fails for a circuit without analog
\* instruction and for one whose analog instructions carry two different
\* registers, and it succeeds, returning that register, for every circuit
\* whose instructions, one or several, all carry the same register.
C22_SameRegisterSucceeds ==
    rgPc = "done"
        => /\ Cardinality(CarriedRegisters) # 1 => rgOutcome # "register"
           /\ (rgCircuit # <<>> /\ \E r \in Registers : SeqMembers(rgCircuit) = {r})
                => /\ rgOutcome = "register"
                   /\ {rgReturn} = SeqMembers(rgCircuit)

\* C22 (amended): extraction succeeds exactly for a circuit of one analog
\* gate, and returns the register of that gate; an empty circuit raises
\* IndexError, and a circuit with a gate that has no analog register, or with
\* two or more analog gates, whatever registers they carry, raises ValueError.
C22_SingleAnalogGateOnly ==
    rgPc = "done"
        => /\ rgOutcome = "register"
                <=> (Len(rgCircuit) = 1 /\ rgCircuit[1] # NoRegister)
           /\ rgOutcome = "register" => rgReturn = rgCircuit[1]
           /\ rgCircuit = <<>> => rgOutcome = "IndexError"
           /\ Len(rgCircuit) > 1 => rgOutcome = "ValueError"
           /\ NoRegister \in SeqMembers(rgCircuit) => rgOutcome = "ValueError"

\* MaxGates analog gates, all carrying the register r1, were refused
C22_Witness ==
    /\ rgPc = "done"
    /\ Len(rgCircuit) = MaxGates
    /\ SeqMembers(rgCircuit) = {"r1"}
    /\ rgOutcome = "ValueError"

----------------------------------------------------------------------------
(* HamiltonianGate.__init__  (gate.py)                                      *)

\* the two InterpolatePoints classes of the package: gate.py:21 and
\* pulse_utils.py:41; neither derives from the other
GateInterpolatePoints  == "gate.InterpolatePoints"
UtilsInterpolatePoints == "pulse_utils.InterpolatePoints"
PointsClasses == {GateInterpolatePoints, UtilsInterpolatePoints}

Durations == {DefaultDuration, DefaultDuration - 100}

\* what a caller passes as amplitude or detuning: an InterpolatePoints of
\* either class, or a plain list
PointsArgs ==
    [cls : PointsClasses, duration : Durations, n : {NPoints, NPoints + 1}]
        \cup {[cls |-> "list", duration |-> 0, n |-> NPoints + 1]}

HgArgSets ==
    [amplitude : PointsArgs, detuning : PointsArgs,
     phase : {"float", "InterpolatePoints"},
     composed_wf : {"None", "given"}]

\* lines 171-174 : isinstance(x, InterpolatePoints), the class of gate.py
IsInterpolatePoints(x) == x.cls = GateInterpolatePoints

nonGateVars == <<jobVars, callVars, envVars, pollVars, provVars, runVars, tgtVars,
                 wfVars, seqVars, regVars, execVars, smpVars, termVars>>

InitGate ==
    /\ JobIdle /\ PollIdle /\ ProvIdle /\ RunIdle /\ TgtIdle /\ WfIdle
    /\ SeqIdle /\ RegIdle /\ ExecIdle /\ SmpIdle /\ TermIdle
    /\ hgArgs \in HgArgSets
    /\ hgPc = "composed_wf"
    /\ hgOutcome = "none"
    /\ hgBuilt = <<>>

\* the check at hgPc passes and the constructor goes on to `next`, or it
\* raises `exc`
HgCheck(at, passes, exc, next) ==
    /\ hgPc = at
    /\ IF passes
       THEN hgPc' = next /\ hgOutcome' = hgOutcome
       ELSE hgPc' = "done" /\ hgOutcome' = exc
    /\ UNCHANGED <<hgArgs, hgBuilt, nonGateVars>>

\* lines 167-169
HgComposedWf ==
    HgCheck("composed_wf", hgArgs.composed_wf = "None", "NotImplementedError",
            "types")

\* lines 171-178
HgTypes ==
    HgCheck("types",
            IsInterpolatePoints(hgArgs.amplitude)
                /\ IsInterpolatePoints(hgArgs.detuning),
            "TypeError", "durations")

\* lines 180-185
HgDurations ==
    HgCheck("durations", hgArgs.amplitude.duration = hgArgs.detuning.duration,
            "ValueError", "construct")

\* lines 187-210 : Gate.__init__, the attributes and the PasqalRegister
HgConstruct ==
    /\ hgPc = "construct"
    /\ hgBuilt' = <<"Gate", "PasqalRegister">>
    /\ hgPc' = "done"
    /\ hgOutcome' = "gate"
    /\ UNCHANGED <<hgArgs, nonGateVars>>

NextGate ==
    \/ HgComposedWf
    \/ HgTypes
    \/ HgDurations
    \/ HgConstruct

SpecGate == InitGate /\ [][NextGate]_vars

----------------------------------------------------------------------------
(* Properties of gate construction (checked under SpecGate)                 *)

\* the constructor was given two InterpolatePoints and no composed_wf, and
\* has ended
BuiltFromPoints ==
    /\ hgPc = "done"
    /\ hgArgs.composed_wf = "None"
    /\ hgArgs.amplitude.cls \in PointsClasses
    /\ hgArgs.detuning.cls \in PointsClasses

\* C23: for every amplitude / detuning pair of InterpolatePoints whose
\* durations differ, whatever the phase, the constructor raises ValueError
\* and has built nothing.
C23_DurationMismatchRaises ==
    (BuiltFromPoints /\ hgArgs.amplitude.duration # hgArgs.detuning.duration)
        => /\ hgOutcome = "ValueError"
           /\ hgBuilt = <<>>

\* C24: for every amplitude / detuning pair of InterpolatePoints with one
\* duration and different numbers of values, whatever the phase, the
\* constructor raises ValueError.
C24_LengthMismatchRaises ==
    (/\ BuiltFromPoints
     /\ hgArgs.amplitude.duration = hgArgs.detuning.duration
     /\ hgArgs.amplitude.n # hgArgs.detuning.n)
        => hgOutcome = "ValueError"

----------------------------------------------------------------------------
(* Successive run() calls on one backend object  (backends/qutip.py,        *)
(* emu_mps.py, emu_remote.py, qpu.py)                                       *)

\* run() calls made on the backend object
MaxRuns == 3

LocalBackendClasses  == {"QutipEmulatorBackend", "EmuMpsBackend"}
RemoteBackendClasses == {"EmuRemoteBackend", "QPUBackend"}
BackendClasses == LocalBackendClasses \cup RemoteBackendClasses

\* the arguments of one run() call: a circuit of one analog gate whose
\* waveform values are symbolic or not, and the values given for them.
\* A symbolic circuit comes with values for all its parameters.
RunInputs ==
    {[symbolic |-> FALSE, values |-> "None"],
     [symbolic |-> FALSE, values |-> "given"],
     [symbolic |-> TRUE, values |-> "given"]}

\* the Sequence gen_seq returns for the circuit
GenSeqFor(input) == IF input.symbolic THEN "parametrized" ELSE "plain"

\* emu_mps.py:86-87, emu_remote.py:103-104, qpu.py:101-102 :
\* if values: seq = seq.build(**values)
SeqRebuilt(seq, input) == IF input.values = "given" THEN "built" ELSE seq

\* qutip.py:88-89 : if values: seq.build(**values), whose result is not kept
SeqKeptByQutip(seq, input) == seq

\* a backend object: the executor handle its _executor refers to (0: unset)
BackendObject(h) == [executor |-> h]

\* copy.deepcopy(self) : a new backend object with a copy of the executor
CopyOfBackend(objects, handles) ==
    [objects |-> Append(objects, BackendObject(handles + 1)),
     handles |-> handles + 1,
     id      |-> Len(objects) + 1]

\* PasqalLocalJob / PasqalRemoteJob : the backend it is given and that
\* backend's executor (jobs.py:38-41, 96-98)
NewJob(objects, id, seq) ==
    [backend |-> id, executor |-> objects[id].executor, seq |-> seq]

Call(input, received, outcome) ==
    [symbolic |-> input.symbolic, values |-> input.values,
     received |-> received, outcome |-> outcome]

nonExecVars == <<jobVars, callVars, envVars, pollVars, provVars, runVars, tgtVars,
                 wfVars, seqVars, regVars, gateVars, smpVars, termVars>>

\* a backend as its constructor leaves it: the remote ones hold the SDK
\* connection, the local ones no executor yet
InitExec ==
    /\ JobIdle /\ PollIdle /\ ProvIdle /\ RunIdle /\ TgtIdle /\ WfIdle
    /\ SeqIdle /\ RegIdle /\ GateIdle /\ SmpIdle /\ TermIdle
    /\ exClass \in BackendClasses
    /\ exPlatform \in Platforms
    /\ exHandles = IF exClass \in RemoteBackendClasses THEN 1 ELSE 0
    /\ exObjects = <<BackendObject(exHandles)>>
    /\ exJobs = <<>>
    /\ exCalls = <<>>

\* QutipEmulatorBackend.run, lines 74-106. QutipEmulator.from_sequence
\* refuses a parametrized Sequence.
ExRunQutip ==
    /\ exClass = "QutipEmulatorBackend"
    /\ Len(exCalls) < MaxRuns
    /\ \E input \in RunInputs :
         LET seq == SeqKeptByQutip(GenSeqFor(input), input)
         IN  IF seq = "parametrized"
             THEN /\ exCalls' = Append(exCalls, Call(input, seq, "ValueError"))
                  /\ UNCHANGED <<exObjects, exHandles, exJobs>>
             ELSE LET self == [exObjects EXCEPT ![1] = BackendObject(exHandles + 1)]
                      copy == CopyOfBackend(self, exHandles + 1)
                  IN  /\ exObjects' = copy.objects
                      /\ exHandles' = copy.handles
                      /\ exJobs' = Append(exJobs, NewJob(copy.objects, copy.id, seq))
                      /\ exCalls' = Append(exCalls, Call(input, seq, "job"))
    /\ UNCHANGED <<exClass, exPlatform, nonExecVars>>

\* EmuMpsBackend.run, lines 78-108
ExRunEmuMps ==
    /\ exClass = "EmuMpsBackend"
    /\ Len(exCalls) < MaxRuns
    /\ \E input \in RunInputs :
         LET seq == SeqRebuilt(GenSeqFor(input), input)
         IN  IF exPlatform \in {"win32", "cygwin"}
             THEN /\ exCalls' = Append(exCalls, Call(input, "none", "ImportError"))
                  /\ UNCHANGED <<exObjects, exHandles, exJobs>>
             ELSE LET self == [exObjects EXCEPT ![1] = BackendObject(exHandles + 1)]
                  IN  /\ exObjects' = self
                      /\ exHandles' = exHandles + 1
                      /\ exJobs' = Append(exJobs, NewJob(self, 1, seq))
                      /\ exCalls' = Append(exCalls, Call(input, seq, "job"))
    /\ UNCHANGED <<exClass, exPlatform, nonExecVars>>

\* EmuRemoteBackend.run, lines 83-114, and QPUBackend.run, lines 87-112, with
\* shots given
ExRunRemote ==
    /\ exClass \in RemoteBackendClasses
    /\ Len(exCalls) < MaxRuns
    /\ \E input \in RunInputs :
         LET seq  == SeqRebuilt(GenSeqFor(input), input)
             copy == CopyOfBackend(exObjects, exHandles)
         IN  /\ exObjects' = copy.objects
             /\ exHandles' = copy.handles
             /\ exJobs' = Append(exJobs, NewJob(copy.objects, copy.id, seq))
             /\ exCalls' = Append(exCalls, Call(input, seq, "job"))
    /\ UNCHANGED <<exClass, exPlatform, nonExecVars>>

NextExec ==
    \/ ExRunQutip
    \/ ExRunEmuMps
    \/ ExRunRemote

SpecExec == InitExec /\ [][NextExec]_vars

----------------------------------------------------------------------------
(* Properties of run() (checked under SpecExec)                             *)

\* C26: when run() is given values for a circuit with symbolic waveform
\* values, whatever the backend, the executor is never handed the unbuilt
\* parametrized Sequence, and the job returned runs the Sequence built with
\* those values.
C26_ExecutorGetsBuiltSequence ==
    \A i \in 1..Len(exCalls) :
        (exCalls[i].symbolic /\ exCalls[i].values = "given")
            => /\ exCalls[i].received # "parametrized"
               /\ exCalls[i].outcome = "job" => exCalls[i].received = "built"

\* C27: two jobs returned by run() calls on one backend object never hold
\* the same backend object or the same executor handle, and no later run()
\* changes a job already returned or the backend object it holds.
C27_JobsShareNothing ==
    /\ [](\A i, j \in 1..Len(exJobs) :
             i # j => /\ exJobs[i].backend # exJobs[j].backend
                      /\ exJobs[i].executor # exJobs[j].executor)
    /\ [][\A j \in 1..Len(exJobs) :
             /\ exJobs'[j] = exJobs[j]
             /\ exObjects'[exJobs[j].backend] = exObjects[exJobs[j].backend]]_vars

----------------------------------------------------------------------------
(* Sampler.run(pubs)  (sampler.py)                                          *)

\* pubs of one list
MaxPubs == 3

\* a pub-like object: a circuit, a tuple (circuit,), a tuple
\* (circuit, values), or something else (a pulser Sequence)
CircuitPub  == "QuantumCircuit"
Tuple1Pub   == "(circuit,)"
Tuple2Pub   == "(circuit, values)"
SequencePub == "Sequence"
PubLikes  == {CircuitPub, Tuple1Pub, Tuple2Pub}
PubKinds  == PubLikes \cup {SequencePub}

PubsArgs ==
    {[kind |-> "list", items |-> q] : q \in SeqsUpTo(PubKinds, MaxPubs)}
      \cup {[kind |-> k, items |-> <<>>] : k \in {CircuitPub, SequencePub}}

\* _coerce_pubs, lines 59-83 : the pub the circuit is taken from, or the
\* exception raised
CoercePubs(pubs) ==
    CASE pubs.kind = CircuitPub -> [outcome |-> "ok", chosen |-> 1]
      [] pubs.kind = "list" /\ pubs.items = <<>>
                                -> [outcome |-> "IndexError", chosen |-> 0]
      [] pubs.kind = "list" /\ pubs.items[1] \in PubLikes
                                -> [outcome |-> "ok", chosen |-> 1]
      [] OTHER                  -> [outcome |-> "ValueError", chosen |-> 0]

nonSmpVars == <<jobVars, callVars, envVars, pollVars, provVars, runVars, tgtVars,
                wfVars, seqVars, regVars, gateVars, execVars, termVars>>

InitSmp ==
    /\ JobIdle /\ PollIdle /\ ProvIdle /\ RunIdle /\ TgtIdle /\ WfIdle
    /\ SeqIdle /\ RegIdle /\ GateIdle /\ ExecIdle /\ TermIdle
    /\ spPubs \in PubsArgs
    /\ spPc = "coerce"
    /\ spChosen = 0
    /\ spRan = <<>>
    /\ spEntries = 0
    /\ spOutcome = "none"

\* line 103, _coerce_pubs returns a circuit
SpCoerce ==
    /\ spPc = "coerce"
    /\ CoercePubs(spPubs).outcome = "ok"
    /\ spChosen' = CoercePubs(spPubs).chosen
    /\ spPc' = "run"
    /\ UNCHANGED <<spPubs, spRan, spEntries, spOutcome, nonSmpVars>>

\* line 103, _coerce_pubs raises
SpCoerceRaises ==
    /\ spPc = "coerce"
    /\ CoercePubs(spPubs).outcome # "ok"
    /\ spOutcome' = CoercePubs(spPubs).outcome
    /\ spPc' = "done"
    /\ UNCHANGED <<spPubs, spChosen, spRan, spEntries, nonSmpVars>>

\* line 104 : backend.run on the one circuit; the result of the job holds one
\* SamplerPubResult (result.py:64)
SpRun ==
    /\ spPc = "run"
    /\ spRan' = Append(spRan, spChosen)
    /\ spEntries' = 1
    /\ spOutcome' = "job"
    /\ spPc' = "done"
    /\ UNCHANGED <<spPubs, spChosen, nonSmpVars>>

NextSmp ==
    \/ SpCoerce
    \/ SpCoerceRaises
    \/ SpRun

SpecSmp == InitSmp /\ [][NextSmp]_vars

----------------------------------------------------------------------------
(* Properties of Sampler.run (checked under SpecSmp)                        *)

\* a non-empty list of pubs, each a circuit or a tuple holding one
PubList ==
    /\ spPubs.kind = "list"
    /\ spPubs.items # <<>>
    /\ \A i \in 1..Len(spPubs.items) : spPubs.items[i] \in PubLikes

\* neither a circuit nor a list of pubs
NotPubs ==
    \/ spPubs.kind = SequencePub
    \/ /\ spPubs.kind = "list"
       /\ \E i \in 1..Len(spPubs.items) : spPubs.items[i] \notin PubLikes

\* C28: for a list of k pubs Sampler.run runs the circuit of every one of
\* the k pubs and the result returned holds one entry per pub; an input that
\* is neither a circuit nor a list of circuits or (circuit, values) tuples
\* raises ValueError and runs nothing.
C28_EveryPubRuns ==
    spPc = "done"
        => /\ PubList => /\ SeqMembers(spRan) = 1..Len(spPubs.items)
                         /\ spEntries = Len(spPubs.items)
           /\ NotPubs => /\ spOutcome = "ValueError"
                         /\ spRan = <<>>

----------------------------------------------------------------------------
(* The two polling loops of PasqalResult against a remote side whose status *)
(* changes while the loops run (result.py:108-178). The program's steps are *)
(* weakly fair: get_batch_status, batch.refresh and time.sleep return.      *)

RemoteStatuses(path) ==
    IF path = "session" THEN BatchStatuses \cup {UnknownStatus} ELSE CloudStatuses

nonTermVars == <<jobVars, callVars, envVars, pollVars, provVars, runVars, tgtVars,
                 wfVars, seqVars, regVars, gateVars, execVars, smpVars>>

InitTerm ==
    /\ JobIdle /\ PollIdle /\ ProvIdle /\ RunIdle /\ TgtIdle /\ WfIdle
    /\ SeqIdle /\ RegIdle /\ GateIdle /\ ExecIdle /\ SmpIdle
    /\ tmPath \in {"session", "cloud"}
    /\ tmRemote \in RemoteStatuses(tmPath)
    /\ tmJob = (IF tmPath = "cloud" THEN tmRemote ELSE "None")
    /\ tmPc = (IF tmPath = "cloud" THEN "cloud_first" ELSE "while")
    /\ tmOutcome = "none"
    /\ tmSlept = FALSE

\* the remote side moves to another status while the program is waiting
TmRemoteChanges ==
    /\ tmPc \notin {"off", "done"}
    /\ tmRemote' \in RemoteStatuses(tmPath) \ {tmRemote}
    /\ UNCHANGED <<tmPath, tmJob, tmPc, tmOutcome, tmSlept, nonTermVars>>

\* line 115: the condition of the first loop
TmWhile ==
    /\ tmPc = "while"
    /\ tmPc' = (IF tmRemote \in OuterPollSet THEN "sleep" ELSE "get_result")
    /\ UNCHANGED <<tmPath, tmRemote, tmJob, tmOutcome, tmSlept, nonTermVars>>

\* line 116: time.sleep, back to the condition
TmSleep ==
    /\ tmPc = "sleep"
    /\ tmSlept' = TRUE
    /\ tmPc' = "while"
    /\ UNCHANGED <<tmPath, tmRemote, tmJob, tmOutcome, nonTermVars>>

\* lines 121-145: get_result() polls and dispatches
TmGetResult ==
    /\ tmPc = "get_result"
    /\ LET what == MatchBatchStatus(tmRemote)
       IN  IF what = "paused"
           THEN tmPc' = "paused_while" /\ UNCHANGED tmOutcome
           ELSE tmPc' = "done" /\ tmOutcome' = what
    /\ UNCHANGED <<tmPath, tmRemote, tmJob, tmSlept, nonTermVars>>

\* lines 136-140 and 147: the condition of the loop of the PAUSED branch
TmPausedWhile ==
    /\ tmPc = "paused_while"
    /\ IF tmRemote \in PausedPollSet
       THEN tmPc' = "paused_sleep" /\ UNCHANGED tmOutcome
       ELSE tmPc' = "done" /\ tmOutcome' = "NotImplementedError"
    /\ UNCHANGED <<tmPath, tmRemote, tmJob, tmSlept, nonTermVars>>

\* lines 141-142: time.sleep, then return get_result()
TmPausedSleep ==
    /\ tmPc = "paused_sleep"
    /\ tmSlept' = TRUE
    /\ tmPc' = "get_result"
    /\ UNCHANGED <<tmPath, tmRemote, tmJob, tmOutcome, nonTermVars>>

\* where the cloud path goes for what a look at job_obj.status gives
TmCloudAfter(look) ==
    CASE look = "counts" -> tmPc' = "done" /\ tmOutcome' = "counts"
      [] look = "loop"   -> tmPc' = "cloud_refresh" /\ UNCHANGED tmOutcome
      [] OTHER           -> tmPc' = "done" /\ tmOutcome' = "ValueError"

\* lines 161-166: the first look at job_obj.status
TmCloudFirst ==
    /\ tmPc = "cloud_first"
    /\ TmCloudAfter(CloudFirstLook(tmJob))
    /\ UNCHANGED <<tmPath, tmRemote, tmJob, tmSlept, nonTermVars>>

\* line 167: batch.refresh() fetches the status of the job
TmCloudRefresh ==
    /\ tmPc = "cloud_refresh"
    /\ tmJob' = tmRemote
    /\ tmPc' = "cloud_sleep"
    /\ UNCHANGED <<tmPath, tmRemote, tmOutcome, tmSlept, nonTermVars>>

\* lines 168-174 and 166: time.sleep, the two tests, the loop's condition
TmCloudSleep ==
    /\ tmPc = "cloud_sleep"
    /\ tmSlept' = TRUE
    /\ TmCloudAfter(CloudLoopLook(tmJob))
    /\ UNCHANGED <<tmPath, tmRemote, tmJob, nonTermVars>>

\* the steps of the program
TmProgram ==
    \/ TmWhile
    \/ TmSleep
    \/ TmGetResult
    \/ TmPausedWhile
    \/ TmPausedSleep
    \/ TmCloudFirst
    \/ TmCloudRefresh
    \/ TmCloudSleep

NextTerm ==
    \/ TmRemoteChanges
    \/ TmWhile
    \/ TmSleep
    \/ TmGetResult
    \/ TmPausedWhile
    \/ TmPausedSleep
    \/ TmCloudFirst
    \/ TmCloudRefresh
    \/ TmCloudSleep

SpecTerm == InitTerm /\ [][NextTerm]_vars /\ WF_vars(TmProgram)

----------------------------------------------------------------------------
(* Termination of the polling loops (checked under SpecTerm)                *)

TmEnded == tmPc = "done" /\ tmOutcome # "none"

\* C29: both polling loops end once the remote side settles. If the batch
\* status eventually reaches and keeps one of DONE, CANCELED, TIMED_OUT,
\* ERROR, session-polled normalization eventually returns counts or raises;
\* if the batch's job eventually leaves PENDING and RUNNING for good,
\* cloud-job-handle normalization eventually returns counts or raises.
C29_PollingLoopsTerminate ==
    /\ (/\ tmPath = "session"
        /\ <>[](tmRemote \in {"DONE", "CANCELED", "TIMED_OUT", "ERROR"}))
           => <>TmEnded
    /\ (/\ tmPath = "cloud"
        /\ <>[](tmRemote \notin {"PENDING", "RUNNING"}))
           => <>TmEnded

\* the cloud loop slept, then saw the job settled in CANCELED and raised
C29_Witness ==
    /\ tmPath = "cloud"
    /\ tmSlept
    /\ tmJob = "CANCELED"
    /\ tmRemote = "CANCELED"
    /\ tmPc = "done"
    /\ tmOutcome = "ValueError"

====
